---- MODULE Spec2Model ----
(***************************************************************************)
(* Verification model of Alpyne, the Python client of the AnyLogic RL      *)
(* experiment server.  The module holds several state machines, one per    *)
(* part of the library, each with its own specification:                   *)
(*                                                                         *)
(*   SpecCfg  the attribute-style spaces of alpyne/data/spaces.py          *)
(*            (RLSpace, Configuration, Observation, Action): static,       *)
(*            ranged and callable field values.                            *)
(*   SpecSpace the schema-bound dictionaries of alpyne/data.py            *)
(*            (_SimRLSpace: SimConfiguration, SimObservation, SimAction)   *)
(*            and the field descriptors (FieldData) of the schema.         *)
(*   SpecSettings the engine settings of alpyne/data.py (EngineSettings:   *)
(*            the stop_time / stop_date properties) and their encoding by  *)
(*            AlpyneJSONEncoder.  Numbers are exact rationals: the         *)
(*            rounding of binary floating point is not represented.        *)
(*   SpecSim  the client handle of alpyne/sim.py (AnyLogicSim: reset,      *)
(*            take_action, status, lock, _request) and the older client   *)
(*            of alpyne/client (AlpyneClient.wait_for over                 *)
(*            HttpClient.api_request), each talking to the engine's        *)
(*            server.  The server is not part of the Python sources: its   *)
(*            behaviour is taken from the documentation of the client.     *)
(*   SpecUnits the unit enumerations of alpyne/outputs.py (modifier and    *)
(*            convert_to of every unit class).  Conversion factors are     *)
(*            exact: a positive rational is kept as the exponents of its   *)
(*            prime factors.                                               *)
(*   SpecUnitValue the arithmetic of alpyne/outputs.py's UnitValue: the    *)
(*            statements z = x + y, x += y, ... on a variable x.           *)
(*   SpecCodec the conversions of alpyne/data.py and alpyne/utils.py on    *)
(*            one input: FieldData.py_type and py_value, the decoding of   *)
(*            a JSON document by AlpyneJSONDecoder, the encoding of an     *)
(*            object by AlpyneJSONEncoder, and the terminal flag that      *)
(*            alpyne/env.py's AlpyneEnv derives from a status.             *)
(*   SpecRun  the run objects of alpyne/client/model_run.py (ModelRun:     *)
(*            run, reset, stop, take_action, get_state and                 *)
(*            wait_for_completion) against the server of the runs;         *)
(*            SpecMultiRun: BaseMultiRun.run of alpyne/client/abstract.py  *)
(*            driving several of them; SpecRunFair adds fair polling.      *)
(*   SpecSchema the class attribute AnyLogicSim.schema of alpyne/sim.py,   *)
(*            shared by the handles of one process.                        *)
(*                                                                         *)
(* Python values are records [t, v, w]: t is the type tag, v an integer    *)
(* payload and w a sequence payload, so that any two values compare.       *)
(***************************************************************************)
EXTENDS Integers, Sequences, FiniteSets, TLC

VARIABLES
    cls,        \* SpecCfg: class of the space object (Configuration, Action, Observation)
    slots,      \* SpecCfg: RLSpace._data, name -> the field's stored value
    objdict,    \* SpecCfg: names stored in the object's __dict__ besides _data and _names
    calls,      \* SpecCfg: number of invocations of the user's callable so far
    src,        \* SpecCfg: per field, the value the caller assigned last (history)
    nreads,     \* SpecCfg: per field, attribute reads since that assignment (history)
    ret,        \* SpecCfg: operation and result of the last call on the space
    spKey,      \* SpecSpace: SUBSCHEMA_KEY of the dictionary object, "none" before the first one
    spData,     \* SpecSpace: UserDict.data, the (key, value) pairs in insertion order
    spOrigin,   \* SpecSpace: how the object was built: by the caller or from a decoded status
    res,        \* SpecSpace: operation and result of the last call on the dictionary
    esState,    \* SpecSettings: "none" before EngineSettings is constructed, then "live"
    settings,   \* SpecSettings: the attributes of the EngineSettings object
    lastStop,   \* SpecSettings: the stop condition the caller assigned last (history)
    esRes,      \* SpecSettings: operation and result of the last call on the settings
    client,     \* SpecSim: which client is in use: "AnyLogicSim" or "AlpyneClient"
    auto_wait,  \* SpecSim: AnyLogicSim.auto_wait (the auto_lock argument)
    _lock_defaults, \* SpecSim: AnyLogicSim._lock_defaults
    _last_status,   \* SpecSim: AnyLogicSim._last_status
    engine,     \* SpecSim: the state of the engine at the server
    sequence_id, \* SpecSim: the server's count of resets and actions applied
    pc,         \* SpecSim: the client call in progress and the request it waits for
    sends,      \* SpecSim: times the request in flight has been sent so far
    urlErrorCounter, \* SpecSim: HttpClient.api_request's counter of failed attempts
    outcome,    \* SpecSim: what the last finished client call returned or raised
    amount,     \* SpecUnits: an amount, converted from unit to unit
    unit,       \* SpecUnits: the unit the amount is expressed in
    first,      \* SpecUnits: the amount and its unit before the first conversion (history)
    hops,       \* SpecUnits: conversions applied to the amount so far (history)
    ures,       \* SpecUnits: operation and result of the last call on a unit
    var_x,      \* SpecUnitValue: what the caller's variable x holds: a UnitValue or None
    obj_x,      \* SpecUnitValue: the UnitValue object that x was bound to at first
    uvres,      \* SpecUnitValue: the last statement executed on x and its result
    cin,        \* SpecCodec: the field descriptor, JSON document or object at hand
    cres,       \* SpecCodec: the last operation applied to it and its result
    blocking,   \* SpecRun: ModelRun.blocking, as the AlpyneClient was created
    run_id,     \* SpecRun: ModelRun.id of each run object, 0 for None
    last_state, \* SpecRun: the status of ModelRun.last_state of each run object, "None" at first
    runs,       \* SpecRun: the server's run behind each run object: its status, a reset not yet applied
    mpc,        \* SpecRun: the ModelRun call in progress and where it stands
    mout,       \* SpecRun: what the last finished ModelRun call returned or raised, and the status polled last
    loop,       \* SpecMultiRun: where BaseMultiRun.run stands: its position, i, n and n_episodes
    tally,      \* SpecRun: per run, episodes ended at the server and episodes counted (history)
    schema,     \* SpecSchema: the class attribute AnyLogicSim.schema, None before the first connection
    connected,  \* SpecSchema: per handle, the model it is connected to, "none" before
    own,        \* SpecSchema: per handle, the schema its constructor built (history)
    sres        \* SpecSchema: operation, handle and result of the last call

cfgVars == <<cls, slots, objdict, calls, src, nreads, ret>>
spaceVars == <<spKey, spData, spOrigin, res>>
settingsVars == <<esState, settings, lastStop, esRes>>
simVars == <<client, auto_wait, _lock_defaults, _last_status, engine, sequence_id,
             pc, sends, urlErrorCounter, outcome>>
unitVars == <<amount, unit, first, hops, ures>>
uvVars == <<var_x, obj_x, uvres>>
codecVars == <<cin, cres>>
runVars == <<blocking, run_id, last_state, runs, mpc, mout, loop, tally>>
schemaVars == <<schema, connected, own, sres>>
vars == <<cfgVars, spaceVars, settingsVars, simVars, unitVars, uvVars, codecVars, runVars,
          schemaVars>>

\* what the actions of one state machine leave alone
exceptCfg == <<spaceVars, settingsVars, simVars, unitVars, uvVars, codecVars, runVars, schemaVars>>
exceptSpace == <<cfgVars, settingsVars, simVars, unitVars, uvVars, codecVars, runVars, schemaVars>>
exceptSettings == <<cfgVars, spaceVars, simVars, unitVars, uvVars, codecVars, runVars, schemaVars>>
exceptSim == <<cfgVars, spaceVars, settingsVars, unitVars, uvVars, codecVars, runVars, schemaVars>>
exceptUnits == <<cfgVars, spaceVars, settingsVars, simVars, uvVars, codecVars, runVars, schemaVars>>
exceptUnitValue == <<cfgVars, spaceVars, settingsVars, simVars, unitVars, codecVars, runVars, schemaVars>>
exceptCodec == <<cfgVars, spaceVars, settingsVars, simVars, unitVars, uvVars, runVars, schemaVars>>
exceptRun == <<cfgVars, spaceVars, settingsVars, simVars, unitVars, uvVars, codecVars,
               schemaVars>>
exceptSchema == <<cfgVars, spaceVars, settingsVars, simVars, unitVars, uvVars, codecVars,
                  runVars>>

-----------------------------------------------------------------------------
(* Python values *)

Num(n) == [t |-> "num", v |-> n, w |-> <<>>]
NoneV == [t |-> "none", v |-> 0, w |-> <<>>]
Tup(s) == [t |-> "tuple", v |-> 0, w |-> s]
Fn == [t |-> "function", v |-> 0, w |-> <<>>]
Raised(e) == [t |-> e, v |-> 0, w |-> <<>>]

ErrorTypes == {"AttributeError", "KeyError", "TypeError", "StopIteration", "ZeroDivisionError",
               "NotAFieldException", "ValueError", "AssertionError",
               "HTTPError", "ConnectionError", "ExitException", "ModelError", "TimeoutError", "KeyboardInterrupt",
               "NotImplementedError"}
IsError(x) == x.t \in ErrorTypes

-----------------------------------------------------------------------------
(* Each specification leaves the other state machines in their idle state *)

IdleSpace ==
    /\ spKey = "none"
    /\ spData = <<>>
    /\ spOrigin = "none"
    /\ res = [op |-> "none", cat |-> "none", name |-> "", args |-> <<>>,
              out |-> NoneV, changed |-> FALSE]

NoSettings ==
    [units |-> NoneV, start_time |-> NoneV, start_date |-> NoneV, seed |-> NoneV,
     _using_stop_time |-> TRUE, _stop_arg |-> NoneV]

NoStop == [kind |-> "none", value |-> NoneV, units |-> ""]

IdleSettings ==
    /\ esState = "none"
    /\ settings = NoSettings
    /\ lastStop = NoStop
    /\ esRes = [op |-> "none", out |-> NoneV]

\* no call in progress
NoCall == [op |-> "none", req |-> "none", flag |-> {}]

\* no call has finished yet
NoOut == [op |-> "none", val |-> NoneV, flag |-> {}, cause |-> "none", sent |-> 0, locked |-> FALSE]

IdleSim ==
    /\ client = "AnyLogicSim"
    /\ auto_wait = FALSE
    /\ _lock_defaults = [flag |-> {"PAUSED", "FINISHED", "ERROR"}, timeout |-> 30]
    /\ _last_status = NoneV
    /\ engine = "IDLE"
    /\ sequence_id = 0
    /\ pc = NoCall
    /\ sends = 0
    /\ urlErrorCounter = 0
    /\ outcome = NoOut

\* no amount is being converted
NoUnit == [cls |-> "none", name |-> ""]

IdleUnits ==
    /\ amount = NoneV
    /\ unit = NoUnit
    /\ first = [amount |-> NoneV, unit |-> NoUnit]
    /\ hops = 0
    /\ ures = [op |-> "none", self |-> NoUnit, units |-> NoUnit, out |-> NoneV]

\* no statement has been executed on x
NoStatement == [op |-> "none", inplace |-> FALSE, y |-> NoneV, before |-> NoneV, out |-> NoneV]

IdleUnitValue ==
    /\ var_x = NoneV
    /\ obj_x = NoneV
    /\ uvres = NoStatement

IdleCodec ==
    /\ cin = NoneV
    /\ cres = [op |-> "none", out |-> NoneV]

\* BaseMultiRun._n_workers: the run objects of a multi-run
n_workers == 2
Sims == 1..n_workers

\* no ModelRun call in progress, none finished yet, no multi-run
NoRunCall == [op |-> "none", sim |-> 0, at |-> "none", waited |-> FALSE]
NoRunOut == [op |-> "none", sim |-> 0, val |-> NoneV, id |-> 0, waited |-> FALSE,
             polled |-> "None"]
NoLoop == [at |-> "off", i |-> 0, n |-> 0, n_episodes |-> 0, state |-> "None"]
NoRun == [status |-> "NONE", pending |-> FALSE]
NoTally == [ended |-> 0, finished |-> 0, counted |-> 0, finish_calls |-> 0, resets |-> 0]

\* ModelRun.__init__: id = None, last_state = (None, None); no run at the server
FreshRuns ==
    /\ run_id = [s \in Sims |-> 0]
    /\ last_state = [s \in Sims |-> "None"]
    /\ runs = [s \in Sims |-> NoRun]
    /\ mpc = NoRunCall
    /\ mout = NoRunOut
    /\ tally = [s \in Sims |-> NoTally]

IdleRun ==
    /\ blocking = FALSE
    /\ FreshRuns
    /\ loop = NoLoop

\* the handles of one process
Handles == {"first", "second"}
NoSchema == [model |-> "none", configuration |-> <<>>, outputs |-> <<>>]
NoSchemaCall == [op |-> "none", sim |-> "none", name |-> "", item |-> NoneV, out |-> NoneV]

\* class AnyLogicSim: schema = None; no handle constructed
IdleSchema ==
    /\ schema = NoSchema
    /\ connected = [h \in Handles |-> "none"]
    /\ own = [h \in Handles |-> NoSchema]
    /\ sres = NoSchemaCall

-----------------------------------------------------------------------------
(* Bounds of SpecCfg *)

MaxVal == 2       \* start and stop of a range are drawn from 0..MaxVal
MaxStep == 2      \* step of a range is drawn from -MaxStep..MaxStep
MaxReads == 4     \* reads of a dynamic field that are followed after its assignment
MaxCalls == 3     \* invocations of the user's callable that are followed

FieldNames == <<"x", "y">>       \* the names of the space's data elements, in order
UnknownNames == {"z"}            \* a name that is no data element
Classes == {"Configuration", "Action", "Observation"}

\* the ranges a caller assigns: those within the bounds and the one of
\* tests/test_setup.py (test_config_dynamic_range)
RangeTuples ==
    {<<a, b>> : a \in 0..MaxVal, b \in 0..MaxVal}
    \cup {<<a, b, c>> : a \in 0..MaxVal, b \in 0..MaxVal, c \in (-MaxStep)..MaxStep}
    \cup {<<1, 5, 2>>}

\* what a caller assigns to a field: a number or None, and to the first field
\* also a range tuple or a callable
Plain == {Num(n) : n \in 0..1} \cup {NoneV}
Dynamic == {Fn} \cup {Tup(s) : s \in RangeTuples}
Assignable(key) ==
    IF key = FieldNames[1] THEN Plain \cup Dynamic
    ELSE IF key \in UnknownNames THEN {NoneV}
    ELSE Plain

-----------------------------------------------------------------------------
(* alpyne/data/spaces.py *)

Range(s) == {s[i] : i \in DOMAIN s}

\* math.ceil(a / b) for integers a and b, b # 0
Ceil(a, b) == IF b > 0 THEN -((-a) \div b) ELSE -(a \div (-b))

Abs(n) == IF n < 0 THEN -n ELSE n

\* itertools.islice(itertools.count(start, step), count)
CountSlice(start, step, count) == [i \in 1..count |-> start + (i - 1) * step]

\* a stored field value: a plain value, the lambda over an itertools.cycle
\* (its materialised values and the number of values consumed), or a callable
Static(x) == [k |-> "static", val |-> x, vals |-> <<>>, pos |-> 0]
Cycler(s) == [k |-> "cycler", val |-> Fn, vals |-> s, pos |-> 0]
UserFn == [k |-> "callable", val |-> Fn, vals |-> <<>>, pos |-> 0]

\* what the stored value is as a Python object (the lambda and the user's
\* callable are both function objects)
Stored(slot) == slot.val

ToSlot(x) == IF x.t = "function" THEN UserFn ELSE Static(x)

Missing == [t |-> "missing", v |-> 0, w |-> <<>>]   \* no such entry in __dict__

\* the list a call returns, as a Python value
ListV(s) == [t |-> "list", v |-> 0, w |-> s]

\* Result of a write: the new _data, the new __dict__ entries, and what was raised
WriteResult(d, o, e) == [data |-> d, dict |-> o, err |-> e]

\* RLSpace.__setattr__ on a constructed object (self.__dict__ is not empty)
RLSpace__setattr__(data, odict, key, value) ==
    IF key \in DOMAIN data
    THEN WriteResult([data EXCEPT ![key] = value], odict, NoneV)
    ELSE WriteResult(data, [odict EXCEPT ![key] = Stored(value)], NoneV)

\* the conversion of a (start, stop[, step]) tuple in Configuration.__setattr__
StartStopStep(value) ==
    LET step == IF Len(value) = 2 THEN 1 ELSE value[3]
        count == Abs(Ceil(value[2] - value[1], step))
    IN  Cycler(CountSlice(value[1], step, count))

\* Configuration.__setattr__ on a constructed object
Configuration__setattr__(data, odict, key, value) ==
    IF key \notin DOMAIN data /\ odict[key] = Missing
    THEN WriteResult(data, odict, Raised("AttributeError"))
    ELSE IF value.t = "tuple"
    THEN IF Len(value.w) = 3 /\ value.w[3] = 0
         THEN WriteResult(data, odict, Raised("ZeroDivisionError"))
         ELSE RLSpace__setattr__(data, odict, key, StartStopStep(value.w))
    ELSE RLSpace__setattr__(data, odict, key, ToSlot(value))

\* Observation.__setattr__
Observation__setattr__(data, odict, key, value) ==
    IF key \in DOMAIN data
    THEN WriteResult(data, odict, Raised("TypeError"))
    ELSE RLSpace__setattr__(data, odict, key, ToSlot(value))

\* obj.key = value, dispatched on the object's class
SetAttr(c, data, odict, key, value) ==
    CASE c = "Configuration" -> Configuration__setattr__(data, odict, key, value)
      [] c = "Observation" -> Observation__setattr__(data, odict, key, value)
      [] OTHER -> RLSpace__setattr__(data, odict, key, ToSlot(value))

\* Result of a read: the value returned (or raised), the new _data, and the
\* number of times the user's callable was invoked
ReadResult(o, d, n) == [out |-> o, data |-> d, invoked |-> n]

\* `value if not callable(value) else value()` on a stored field value;
\* ncalls is the number of earlier invocations of the user's callable, which
\* returns 1, 2, 3, ... on successive invocations
CallIfCallable(data, key, ncalls) ==
    LET slot == data[key] IN
    CASE slot.k = "static" -> ReadResult(slot.val, data, 0)
      [] slot.k = "callable" -> ReadResult(Num(ncalls + 1), data, 1)
      [] slot.k = "cycler" ->
            IF Len(slot.vals) = 0
            THEN ReadResult(Raised("StopIteration"), data, 0)
            ELSE ReadResult(Num(slot.vals[(slot.pos % Len(slot.vals)) + 1]),
                            [data EXCEPT ![key].pos = (slot.pos + 1) % Len(slot.vals)], 0)

\* RLSpace.__getattr__
RLSpace__getattr__(data, item, ncalls) ==
    IF item \notin DOMAIN data
    THEN ReadResult(Raised("KeyError"), data, 0)
    ELSE CallIfCallable(data, item, ncalls)

\* Configuration.__getattr__ on a constructed object
Configuration__getattr__(data, name, ncalls) ==
    IF name \notin DOMAIN data
    THEN ReadResult(Raised("AttributeError"), data, 0)
    ELSE CallIfCallable(data, name, ncalls)

GetAttr(c, data, name, ncalls) ==
    IF c = "Configuration"
    THEN Configuration__getattr__(data, name, ncalls)
    ELSE RLSpace__getattr__(data, name, ncalls)

\* RLSpace.values(order=None, flatten=False)
RLSpace_values(data, names) ==
    ReadResult(ListV([i \in DOMAIN names |-> Stored(data[names[i]])]), data, 0)

-----------------------------------------------------------------------------
(* SpecCfg: one space object built from the server's template, then written
   and read by the caller *)

AllNames == Range(FieldNames) \cup UnknownNames

Call(op, name, out, n) == [op |-> op, name |-> name, out |-> out, invoked |-> n]

\* the template of tests/test_setup.py: a number and an unset value
Template == [n \in Range(FieldNames) |-> IF n = FieldNames[1] THEN Num(0) ELSE NoneV]

InitCfg ==
    /\ IdleRun
    /\ IdleSchema
    /\ IdleCodec
    /\ IdleUnitValue
    /\ IdleUnits
    /\ IdleSpace
    /\ IdleSettings
    /\ IdleSim
    /\ cls \in Classes
    /\ slots = [n \in Range(FieldNames) |-> Static(Template[n])]
    /\ objdict = [n \in UnknownNames |-> Missing]
    /\ calls = 0
    /\ src = Template
    /\ nreads = [n \in Range(FieldNames) |-> 0]
    /\ ret = Call("init", "", NoneV, 0)

\* obj.key = value (obj.set_input(key, value) is the same call)
Write(how, key, value) ==
    LET r == SetAttr(cls, slots, objdict, key, value) IN
    /\ slots' = r.data
    /\ objdict' = r.dict
    /\ ret' = Call(how, key, r.err, 0)
    /\ IF key \in DOMAIN slots /\ ~IsError(r.err)
       THEN src' = [src EXCEPT ![key] = value] /\ nreads' = [nreads EXCEPT ![key] = 0]
       ELSE UNCHANGED <<src, nreads>>
    /\ UNCHANGED <<cls, calls>>

SetAttribute ==
    /\ \E key \in AllNames : \E value \in Assignable(key) : Write("setattr", key, value)
    /\ UNCHANGED exceptCfg

\* what a read through __getattr__ does to the state
Read(how, name) ==
    LET r == GetAttr(cls, slots, name, calls) IN
    /\ (name \in DOMAIN slots /\ slots[name].k # "static") => nreads[name] < MaxReads
    /\ calls + r.invoked <= MaxCalls
    /\ slots' = r.data
    /\ calls' = calls + r.invoked
    /\ ret' = Call(how, name, r.out, r.invoked)
    /\ IF name \in DOMAIN slots /\ slots[name].k # "static"
       THEN nreads' = [nreads EXCEPT ![name] = @ + 1]
       ELSE UNCHANGED nreads
    /\ UNCHANGED <<cls, objdict, src>>

\* obj.name: __getattribute__ finds an entry of __dict__, otherwise __getattr__ runs
GetAttribute ==
    /\ \E name \in AllNames :
        IF name \in UnknownNames /\ objdict[name] # Missing
        THEN /\ ret' = Call("getattr", name, objdict[name], 0)
             /\ UNCHANGED <<cls, slots, objdict, calls, src, nreads>>
        ELSE Read("getattr", name)
    /\ UNCHANGED exceptCfg

\* obj.get_input(name): calls __getattr__ directly
get_input ==
    /\ \E name \in AllNames : Read("get_input", name)
    /\ UNCHANGED exceptCfg

\* obj.values()
values ==
    LET r == RLSpace_values(slots, FieldNames) IN
    /\ ret' = Call("values", "", r.out, r.invoked)
    /\ UNCHANGED <<cls, slots, objdict, calls, src, nreads>>
    /\ UNCHANGED exceptCfg

NextCfg ==
    \/ SetAttribute
    \/ GetAttribute
    \/ get_input
    \/ values

SpecCfg == InitCfg /\ [][NextCfg]_vars

-----------------------------------------------------------------------------
(* Claims about the attribute-style spaces, checked under SpecCfg *)

IsRead(op) == op \in {"getattr", "get_input"}

\* a (start, stop, step) range with step > 0 whose stop is reached from start
\* in whole steps
ReachableRange(x) ==
    /\ x.t = "tuple"
    /\ Len(x.w) = 3
    /\ x.w[3] > 0
    /\ x.w[2] > x.w[1]
    /\ (x.w[2] - x.w[1]) % x.w[3] = 0

\* C1: for a Configuration field assigned (start, stop, step) with step > 0 and
\* stop reachable from start in whole steps, the k-th read since the assignment
\* returns the k-th element of start, start+step, ..., stop repeated forever
\* (stop included, then wrapping around to start).
C1_RangeReadsIncludeStop ==
    \A name \in Range(FieldNames) :
        (/\ cls = "Configuration"
         /\ IsRead(ret.op)
         /\ ret.name = name
         /\ ReachableRange(src[name]))
        => LET a == src[name].w[1]
               b == src[name].w[2]
               c == src[name].w[3]
               n == ((b - a) \div c) + 1
           IN  /\ nreads[name] >= 1
               /\ ret.out = Num(a + ((nreads[name] - 1) % n) * c)

\* C2: for a field assigned a zero-argument callable, every read operation
\* (attribute read, get_input and values()) invokes the callable exactly once
\* and returns the result of that invocation, never the callable itself.
C2_EveryReadInvokesCallable ==
    /\ (IsRead(ret.op) /\ ret.name \in DOMAIN src /\ src[ret.name] = Fn)
       => (ret.invoked = 1 /\ ret.out = Num(calls))
    /\ ret.op = "values"
       => \A i \in DOMAIN FieldNames :
            src[FieldNames[i]] = Fn
            => (ret.invoked = 1 /\ ret.out.w[i] = Num(calls))

\* C3: for every typed space (Configuration, Action, Observation) and every
\* name that is no data element of the space, writing the name and reading it
\* fail with an error, and no such name is ever stored or returned (whatever
\* the error's type and text: the attribute-style spaces have no error that
\* lists the valid names).
C3_UnknownNameNeverStored ==
    /\ \A n \in UnknownNames : objdict[n] = Missing
    /\ (ret.op \in {"setattr", "getattr", "get_input"} /\ ret.name \in UnknownNames)
       => IsError(ret.out)

IdleCfg ==
    /\ cls = "Configuration"
    /\ slots = [n \in Range(FieldNames) |-> Static(Template[n])]
    /\ objdict = [n \in UnknownNames |-> Missing]
    /\ calls = 0
    /\ src = Template
    /\ nreads = [n \in Range(FieldNames) |-> 0]
    /\ ret = Call("init", "", NoneV, 0)

\* C25: for an Action field assigned a (start, stop, step) tuple, each read of
\* the field returns the next number of the stepped sequence, advancing on
\* every read and wrapping around, exactly as for a Configuration field; a
\* read never returns the tuple itself.
C25_ActionRangeReadsNumbers ==
    (/\ cls = "Action"
     /\ IsRead(ret.op)
     /\ ret.name \in DOMAIN src
     /\ ReachableRange(src[ret.name]))
    => (ret.out.t = "num" /\ ret.out # src[ret.name])

Min(a, b) == IF a <= b THEN a ELSE b
Max(a, b) == IF a >= b THEN a ELSE b

\* C29: for a Configuration field assigned any tuple (start, stop) or (start,
\* stop, step) with step not zero, start = stop and a step whose sign points
\* away from stop included, every read of the field succeeds and returns a
\* value v with min(start, stop) <= v <= max(start, stop).
C29_RangeReadsStayWithinBounds ==
    (/\ cls = "Configuration"
     /\ IsRead(ret.op)
     /\ ret.name \in DOMAIN src
     /\ src[ret.name].t = "tuple")
    => /\ ~IsError(ret.out)
       /\ Min(src[ret.name].w[1], src[ret.name].w[2]) <= ret.out.v
       /\ ret.out.v <= Max(src[ret.name].w[1], src[ret.name].w[2])

-----------------------------------------------------------------------------
(* alpyne/data.py: field descriptors *)

IntV(n) == [t |-> "int", v |-> n, w |-> <<>>]
FloatV(n) == [t |-> "float", v |-> n, w |-> <<>>]
InfV(sign) == [t |-> "float", v |-> sign, w |-> <<0>>]     \* math.inf, -math.inf

\* a float that is not a whole number: v / w[1], in lowest terms
RECURSIVE GCD(_, _)
GCD(a, b) == IF b = 0 THEN a ELSE GCD(b, a % b)
Rat(n, d) ==
    LET g == GCD(IF n < 0 THEN -n ELSE n, d) IN
    [t |-> "float", v |-> n \div g, w |-> IF d \div g = 1 THEN <<>> ELSE <<d \div g>>]
IsInf(x) == x.t = "float" /\ x.w = <<0>>
Numer(x) == x.v
Denom(x) == IF x.w = <<>> THEN 1 ELSE x.w[1]
\* x * y, x - y and x + y for numbers (int or float); an infinite x stays infinite
Mul(x, y) == IF IsInf(x) THEN x ELSE Rat(Numer(x) * Numer(y), Denom(x) * Denom(y))
Sub(x, y) ==
    IF IsInf(x) THEN x
    ELSE LET l == (Denom(x) \div GCD(Denom(x), Denom(y))) * Denom(y) IN
         Rat(Numer(x) * (l \div Denom(x)) - Numer(y) * (l \div Denom(y)), l)
Add(x, y) == Sub(x, Rat(-Numer(y), Denom(y)))
BoolV(b) == [t |-> "bool", v |-> IF b THEN 1 ELSE 0, w |-> <<>>]
StrV(x) == [t |-> "str", v |-> 0, w |-> <<x>>]
DictV == [t |-> "dict", v |-> 0, w |-> <<>>]
ListOf(x) == [t |-> "list", v |-> 0, w |-> x]
\* a datetime: the seconds (a number) since 2024-01-02T00:00:00
Date(x) == [t |-> "datetime", v |-> x.v, w |-> x.w]
SecondsOf(d) == [t |-> "float", v |-> d.v, w |-> d.w]
UnitValue(n, u) == [t |-> "UnitValue", v |-> n, w |-> <<u>>]
\* UnitValue(value, unit) for a value that need not be whole; uv.value, uv.unit
UnitValueOf(value, u) == [t |-> "UnitValue", v |-> value.v, w |-> <<u>> \o value.w]
ValueOf(uv) == [t |-> "float", v |-> uv.v, w |-> Tail(uv.w)]
UnitOf(uv) == uv.w[1]
UnitMember(u) == [t |-> "TimeUnits", v |-> 0, w |-> <<u>>]
Analysis(kind) == [t |-> kind, v |-> 0, w |-> <<>>]

NoUnits == ""      \* FieldData.units = None

FieldData(name, type, value, units) ==
    [name |-> name, type |-> type, value |-> value, units |-> units]

AnalysisTypes == {"DataSet", "StatisticsDiscrete", "StatisticsContinuous",
                  "HistogramSimpleData", "HistogramSmartData", "Histogram2DData"}

\* constants.TYPE_LOOKUP: simple Java class name -> Python type
TYPE_LOOKUP ==
    [ty \in {"long", "Long", "int", "Integer", "double", "Double", "float", "Float",
             "String", "boolean", "Boolean", "Map", "HashMap", "TreeMap", "LinkedHashMap",
             "ArrayList", "LinkedList", "LinkedHashSet", "HashSet", "TreeSet",
             "TimeUnits", "Date"} \cup AnalysisTypes |->
        CASE ty \in {"long", "Long", "int", "Integer"} -> "int"
          [] ty \in {"double", "Double", "float", "Float"} -> "float"
          [] ty = "String" -> "str"
          [] ty \in {"boolean", "Boolean"} -> "bool"
          [] ty \in {"Map", "HashMap", "TreeMap", "LinkedHashMap"} -> "dict"
          [] ty \in {"ArrayList", "LinkedList", "LinkedHashSet", "HashSet", "TreeSet"} -> "list"
          [] ty = "Date" -> "datetime"
          [] OTHER -> ty]

\* the wire types that contain '[]'
ArrayTypes == {"int[]", "double[]", "long[]", "boolean[]", "String[]"}

\* FieldData.py_type
py_type(f) ==
    IF f.type \in ArrayTypes THEN "list"
    ELSE IF f.type \in DOMAIN TYPE_LOOKUP THEN TYPE_LOOKUP[f.type]
    ELSE "Any"

\* isinstance(value, cls) for the Python types above; typing.Any refuses
\* isinstance with a TypeError
IsInstance(value, pt) ==
    CASE pt = "int" -> value.t \in {"int", "bool"}
      [] pt = "float" -> value.t = "float"
      [] OTHER -> value.t = pt

\* utils.parse_number
parse_number(value) ==
    IF value.t = "str"
    THEN IF value.w = <<"Infinity">> THEN InfV(1)
         ELSE IF value.w = <<"-Infinity">> THEN InfV(-1)
         ELSE Raised("ValueError")
    ELSE value

\* the strings that match a pattern of constants.DATE_PATTERN_LOOKUP
DateStrings == {"2024-01-02", "2024-01-02T00:04:05", "2024-01-02T00:04:05.5"}

\* datetime.strptime(value, fmt) for the date strings above
strptime(value) ==
    CASE value = "2024-01-02" -> Date(Rat(0, 1))
      [] value = "2024-01-02T00:04:05" -> Date(Rat(245, 1))
      [] value = "2024-01-02T00:04:05.5" -> Date(Rat(491, 2))

\* the member names of outputs.TimeUnits
TimeUnitNames == {"MILLISECOND", "SECOND", "MINUTE", "HOUR", "DAY", "WEEK", "MONTH", "YEAR"}

\* member names of the other unit enumerations of outputs.py (some of them)
UnitNames == TimeUnitNames \cup {"METER", "KILOMETER", "LITER", "KILOGRAM", "RADIAN"}

\* FieldData.py_value
py_value(f) ==
    IF f.value = NoneV THEN NoneV
    ELSE IF py_type(f) = "datetime"
    THEN IF f.value.t # "str" THEN Raised("TypeError")
         ELSE IF f.value.w[1] \in DateStrings THEN strptime(f.value.w[1])
         ELSE Raised("ValueError")
    ELSE IF f.units # NoUnits /\ f.value.t \in {"int", "float", "bool"}
    THEN IF f.units \in UnitNames THEN UnitValueOf(f.value, f.units)
         ELSE Raised("AttributeError")
    ELSE IF f.value.t = "dict" /\ py_type(f) # "dict"
    THEN IF py_type(f) \in AnalysisTypes THEN Analysis(py_type(f)) ELSE Raised("TypeError")
    ELSE IF py_type(f) \in {"int", "float"}
    THEN parse_number(f.value)
    ELSE IF py_type(f) = "TimeUnits"
    THEN IF f.value.t = "str" /\ f.value.w[1] \in TimeUnitNames
         THEN UnitMember(f.value.w[1])
         ELSE Raised("KeyError")
    ELSE IF py_type(f) = "Any" THEN Raised("TypeError")
    ELSE IF IsInstance(f.value, py_type(f)) THEN f.value
    ELSE Raised("AssertionError")

-----------------------------------------------------------------------------
(* alpyne/data.py: the schema and the schema-bound dictionaries *)

\* SimSchema: the process-wide AnyLogicSim.schema, one ordered name -> FieldData
\* mapping per category
SimSchema ==
    [configuration |-> << FieldData("rate", "double", FloatV(0), NoUnits),
                          FieldData("limit", "double", StrV("Infinity"), NoUnits) >>,
     observation   |-> << FieldData("letter", "String", NoneV, NoUnits),
                          FieldData("level", "int", IntV(0), NoUnits) >>,
     action        |-> << FieldData("step", "int", IntV(0), NoUnits),
                          FieldData("wait", "double", IntV(5), "SECOND") >>,
     engine_settings |-> << FieldData("units", "TimeUnits", StrV("SECOND"), NoUnits),
                            FieldData("start_time", "double", IntV(0), NoUnits),
                            FieldData("start_date", "Date", StrV("2024-01-02"), NoUnits),
                            FieldData("stop_time", "double", StrV("Infinity"), NoUnits),
                            FieldData("seed", "Long", NoneV, NoUnits) >>]

SUBSCHEMA_KEYS == {"configuration", "observation", "action"}

\* _SimRLSpace._schema: the subschema of the object's category
_schema(key) == SimSchema[key]

\* list(subschema.keys())
SchemaKeys(key) == [i \in DOMAIN _schema(key) |-> _schema(key)[i].name]

InSchema(key, name) == \E i \in DOMAIN _schema(key) : _schema(key)[i].name = name

FieldOf(key, name) == _schema(key)[CHOOSE i \in DOMAIN _schema(key) : _schema(key)[i].name = name]

\* NotAFieldException(cls, valid_names, attempted_name)
NotAFieldException(key) == [t |-> "NotAFieldException", v |-> 0, w |-> SchemaKeys(key)]

\* dict operations on UserDict.data, a sequence of [k, v] in insertion order
HasKey(data, k) == \E i \in DOMAIN data : data[i].k = k
Get(data, k) == data[CHOOSE i \in DOMAIN data : data[i].k = k].v
Put(data, k, x) ==
    IF HasKey(data, k)
    THEN [i \in DOMAIN data |-> IF data[i].k = k THEN [k |-> k, v |-> x] ELSE data[i]]
    ELSE Append(data, [k |-> k, v |-> x])
Del(data, k) == SelectSeq(data, LAMBDA e : e.k # k)

\* Outcome of a call on the dictionary: the new data and what was raised
Outcome(d, e) == [data |-> d, err |-> e]

\* _SimRLSpace.__setitem__
_SimRLSpace__setitem__(key, data, name, item) ==
    IF ~InSchema(key, name)
    THEN Outcome(data, NotAFieldException(key))
    ELSE Outcome(Put(data, name, item), NoneV)

\* (mutant for C5) __missing__ returning the raw default instead of py_value
MissingRawDefault(key, name) ==
    IF ~InSchema(key, name)
    THEN NotAFieldException(key)
    ELSE FieldOf(key, name).value

\* _SimRLSpace.__missing__: the default of a schema field, or the exception
_SimRLSpace__missing__(key, name) ==
    IF ~InSchema(key, name)
    THEN NotAFieldException(key)
    ELSE py_value(FieldOf(key, name))

\* UserDict.__getitem__
UserDict__getitem__(key, data, name) ==
    IF HasKey(data, name) THEN Get(data, name) ELSE _SimRLSpace__missing__(key, name)

\* MutableMapping.update(**kwargs): one __setitem__ per pair, in order, up to
\* the first that raises
RECURSIVE update(_, _, _)
update(key, data, kwargs) ==
    IF kwargs = <<>> THEN Outcome(data, NoneV)
    ELSE LET r == _SimRLSpace__setitem__(key, data, kwargs[1].k, kwargs[1].v) IN
         IF IsError(r.err) THEN r ELSE update(key, r.data, Tail(kwargs))

\* the loop of _SimRLSpace.__init__ over the subschema, from its i-th field on
RECURSIVE FillFromSchema(_, _, _)
FillFromSchema(key, data, i) ==
    IF i > Len(_schema(key)) THEN Outcome(data, NoneV)
    ELSE LET f == _schema(key)[i] IN
         IF ~HasKey(data, f.name)
         THEN LET d == _SimRLSpace__missing__(key, f.name) IN
              IF IsError(d) THEN Outcome(data, d)
              ELSE FillFromSchema(key, Put(data, f.name, d), i + 1)
         ELSE IF py_type(f) = "Any" THEN Outcome(data, Raised("TypeError"))
         ELSE IF ~IsInstance(Get(data, f.name), py_type(f))
                 /\ Get(data, f.name).t = "str" /\ py_type(f) \in {"int", "float"}
         THEN LET n == parse_number(Get(data, f.name)) IN
              IF IsError(n) THEN Outcome(data, n)
              ELSE FillFromSchema(key, Put(data, f.name, n), i + 1)
         ELSE FillFromSchema(key, data, i + 1)

\* _SimRLSpace.__init__(**kwargs)
_SimRLSpace__init__(key, kwargs) ==
    LET u == update(key, <<>>, kwargs) IN
    IF IsError(u.err) THEN u ELSE FillFromSchema(key, u.data, 1)

-----------------------------------------------------------------------------
(* SpecSpace: the caller builds schema-bound dictionaries, directly or by
   decoding a status, and reads and writes their items *)

\* a field of another category
ForeignKey(key) ==
    CASE key = "configuration" -> "step"
      [] key = "observation" -> "rate"
      [] key = "action" -> "letter"

\* the keys a caller uses on a dictionary of a category: its fields and a
\* name that is no field of the category
CallerKeys(key) == Range(SchemaKeys(key)) \cup {ForeignKey(key)}

\* the values a caller (or a decoded JSON document) supplies
SuppliedValues == {IntV(1), StrV("Infinity"), StrV("-Infinity"), StrV("b")}

\* keyword arguments: distinct keys, in the order given, at most as many as
\* the category has fields
KwargsOf ==
    [key \in SUBSCHEMA_KEYS |->
        UNION {
            {kw \in [1..n -> [k : CallerKeys(key), v : SuppliedValues]] :
                \A i, j \in 1..n : i # j => kw[i].k # kw[j].k}
            : n \in 0..Len(SchemaKeys(key))}]
Kwargs(key) == KwargsOf[key]

\* the first keyword that is not a field of the category, "" if all are
FirstForeign(key, kwargs) ==
    LET bad == {i \in DOMAIN kwargs : ~InSchema(key, kwargs[i].k)} IN
    IF bad = {} THEN ""
    ELSE kwargs[CHOOSE i \in bad : \A j \in bad : i <= j].k

\* record of a call: the operation, the category of the dictionary, the key given
\* (for update: the first keyword that is not a field), the keyword arguments
\* of a constructor, what was returned or raised, and whether the
\* dictionary's data changed
Done(op, cat, name, args, out, changed) ==
    [op |-> op, cat |-> cat, name |-> name, args |-> args, out |-> out, changed |-> changed]

InitSpace ==
    /\ IdleRun
    /\ IdleSchema
    /\ IdleCodec
    /\ IdleUnitValue
    /\ IdleUnits
    /\ IdleCfg
    /\ IdleSettings
    /\ IdleSim
    /\ IdleSpace

\* SimConfiguration(**kwargs), SimObservation(**kwargs), SimAction(**kwargs):
\* a failed constructor leaves no new object
Construct(op, origin, key, kwargs) ==
    LET r == _SimRLSpace__init__(key, kwargs) IN
    IF IsError(r.err)
    THEN /\ spKey' = "none"
         /\ spData' = <<>>
         /\ spOrigin' = "none"
         /\ res' = Done(op, key, "", kwargs, r.err, FALSE)
    ELSE /\ spKey' = key
         /\ spData' = r.data
         /\ spOrigin' = origin
         /\ res' = Done(op, key, "", kwargs, NoneV, TRUE)

New ==
    /\ \E key \in SUBSCHEMA_KEYS : \E kwargs \in Kwargs(key) :
          Construct("__init__", "caller", key, kwargs)
    /\ UNCHANGED exceptSpace

\* SimStatus.__post_init__: the observation dict of a decoded status record
\* becomes SimObservation(**observation)
SimStatus__post_init__ ==
    /\ \E kwargs \in Kwargs("observation") :
          Construct("__post_init__", "status", "observation", kwargs)
    /\ UNCHANGED exceptSpace

\* space[name] = item
SetItem ==
    /\ spKey # "none"
    /\ \E name \in CallerKeys(spKey), item \in SuppliedValues :
          LET r == _SimRLSpace__setitem__(spKey, spData, name, item) IN
          /\ spData' = r.data
          /\ res' = Done("__setitem__", spKey, name, <<>>, r.err, r.data # spData)
    /\ UNCHANGED <<spKey, spOrigin>>
    /\ UNCHANGED exceptSpace

\* space.update(**kwargs)
Update ==
    /\ spKey # "none"
    /\ \E kwargs \in Kwargs(spKey) :
          LET r == update(spKey, spData, kwargs) IN
          /\ kwargs # <<>>
          /\ spData' = r.data
          /\ res' = Done("update", spKey, FirstForeign(spKey, kwargs), <<>>,
                          r.err, r.data # spData)
    /\ UNCHANGED <<spKey, spOrigin>>
    /\ UNCHANGED exceptSpace

\* space[name]
GetItem ==
    /\ spKey # "none"
    /\ \E name \in CallerKeys(spKey) :
          res' = Done("__getitem__", spKey, name, <<>>,
                      UserDict__getitem__(spKey, spData, name), FALSE)
    /\ UNCHANGED <<spKey, spData, spOrigin>>
    /\ UNCHANGED exceptSpace

\* del space[name]
DelItem ==
    /\ spKey # "none"
    /\ \E name \in CallerKeys(spKey) :
          IF HasKey(spData, name)
          THEN /\ spData' = Del(spData, name)
               /\ res' = Done("__delitem__", spKey, name, <<>>, NoneV, TRUE)
          ELSE /\ res' = Done("__delitem__", spKey, name, <<>>, Raised("KeyError"), FALSE)
               /\ UNCHANGED spData
    /\ UNCHANGED <<spKey, spOrigin>>
    /\ UNCHANGED exceptSpace

\* the action argument of take_action: None, a dict, or the caller's SimAction
NoAction == [kind |-> "none", items |-> <<>>]
ActionDict(items) == [kind |-> "dict", items |-> items]
ActionObject(data) == [kind |-> "object", items |-> data]

\* AnyLogicSim.take_action, up to the request: the SimAction submitted as
\* data=dict(action=_action), or what is raised
take_action_argument(_action, action_kwargs) ==
    LET made == CASE _action.kind = "none" -> _SimRLSpace__init__("action", <<>>)
                  [] _action.kind = "dict" -> _SimRLSpace__init__("action", _action.items)
                  [] _action.kind = "object" -> Outcome(_action.items, NoneV)
    IN IF IsError(made.err) THEN made
       ELSE update("action", made.data, action_kwargs)

\* the arguments a caller gives to take_action: nothing, or a value for step
ActionArgs ==
    {kw \in Kwargs("action") :
        /\ Len(kw) <= 1
        /\ \A i \in DOMAIN kw : kw[i].k = "step" /\ kw[i].v \in {IntV(1), StrV("Infinity")}}

\* sim.take_action(_action, **action_kwargs): a SimAction that the caller
\* passes is updated in place
SubmitAction ==
    /\ \E _action \in {NoAction} \cup {ActionDict(kw) : kw \in ActionArgs}
                      \cup (IF spKey = "action" THEN {ActionObject(spData)} ELSE {}),
          action_kwargs \in ActionArgs :
          LET r == take_action_argument(_action, action_kwargs) IN
          /\ spData' = IF _action.kind = "object" THEN r.data ELSE spData
          /\ res' = [op |-> "take_action", cat |-> "action", name |-> "",
                     args |-> _action.items,
                     out |-> IF IsError(r.err) THEN r.err
                             ELSE [t |-> "dict", v |-> 0, w |-> r.data],
                     changed |-> spData' # spData,
                     kwargs |-> action_kwargs]
    /\ UNCHANGED <<spKey, spOrigin>>
    /\ UNCHANGED exceptSpace

NextSpace ==
    \/ SubmitAction
    \/ New
    \/ SimStatus__post_init__
    \/ SetItem
    \/ Update
    \/ GetItem
    \/ DelItem

SpecSpace == InitSpace /\ [][NextSpace]_vars

-----------------------------------------------------------------------------
(* Claims about the schema-bound dictionaries, checked under SpecSpace *)

Writes == {"__init__", "__post_init__", "__setitem__", "update"}

\* the keys a call named: its key, or those of its keyword arguments
KeysGiven(r) ==
    (IF r.name = "" THEN {} ELSE {r.name}) \cup {r.args[i].k : i \in DOMAIN r.args}

\* the error that names the category's valid fields
IsNotAField(x, cat) == x.t = "NotAFieldException" /\ x.w = SchemaKeys(cat)

\* The dictionary-style spaces of alpyne/data.py: writing a name outside the
\* schema category (constructor argument, item assignment, update) and reading
\* it fail with the not-a-field error that lists the valid field names, and no
\* such name is ever held.
SimSpace_UnknownNameRejected ==
    /\ \A i \in DOMAIN spData : InSchema(spKey, spData[i].k)
    /\ (/\ res.op \in Writes \cup {"__getitem__"}
        /\ \E k \in KeysGiven(res) : ~InSchema(res.cat, k))
       => IsNotAField(res.out, res.cat)

\* an item assignment of a name of another category was rejected while the
\* dictionary held its fields
SimSpace_UnknownNameRejected_Witness ==
    /\ res.op = "__setitem__"
    /\ res.cat = "configuration"
    /\ res.name = "step"
    /\ IsError(res.out)
    /\ Len(spData) = 2

\* C4: once an Observation has been constructed (directly or as the
\* observation of a decoded status record), every attempt to write a field of
\* it fails with an error and leaves its contents unchanged.
C4_ObservationImmutable ==
    (spKey = "observation" /\ res.op \in {"__setitem__", "update"})
    => (IsError(res.out) /\ ~res.changed)

\* the host values of the schema's defaults
HostDefault ==
    [rate |-> FloatV(0), limit |-> InfV(1), letter |-> NoneV, level |-> IntV(0),
     step |-> IntV(0), wait |-> UnitValue(5, "SECOND")]

Supplied(r, name) == \E i \in DOMAIN r.args : r.args[i].k = name
SuppliedValue(r, name) == r.args[CHOOSE i \in DOMAIN r.args : r.args[i].k = name].v

Constructed == res.op \in {"__init__", "__post_init__"} /\ ~IsError(res.out)

\* C5 as claimed: right after construction the space holds, for every schema
\* field, the supplied value if one was supplied and the schema default (host
\* value) otherwise.
C5_HoldsSuppliedOrDefault ==
    Constructed =>
        \A i \in DOMAIN _schema(spKey) :
            LET name == _schema(spKey)[i].name IN
            /\ HasKey(spData, name)
            /\ Get(spData, name) = IF Supplied(res, name)
                                   THEN SuppliedValue(res, name)
                                   ELSE HostDefault[name]

\* what a numeric field holds for a supplied value: the strings "Infinity" and
\* "-Infinity" become the infinities
HeldFor(f, x) ==
    IF x.t = "str" /\ py_type(f) \in {"int", "float"}
    THEN IF x.w = <<"Infinity">> THEN InfV(1) ELSE InfV(-1)
    ELSE x

\* C5 amended: right after a successful construction the space holds a value
\* for every schema field: the schema default (host value) if none was
\* supplied, otherwise the supplied value, except that the string "Infinity"
\* ("-Infinity") supplied for an int or float field is held as +inf (-inf);
\* any other string supplied for such a field makes the construction fail.
C5_HoldsSuppliedParsedOrDefault ==
    /\ Constructed =>
        \A i \in DOMAIN _schema(spKey) :
            LET f == _schema(spKey)[i] IN
            /\ HasKey(spData, f.name)
            /\ Get(spData, f.name) = IF Supplied(res, f.name)
                                     THEN HeldFor(f, SuppliedValue(res, f.name))
                                     ELSE HostDefault[f.name]
    /\ (/\ res.op \in {"__init__", "__post_init__"}
        /\ \A k \in KeysGiven(res) : InSchema(res.cat, k)
        /\ \E i \in DOMAIN res.args :
              /\ res.args[i].v.t = "str"
              /\ res.args[i].v.w \notin {<<"Infinity">>, <<"-Infinity">>}
              /\ py_type(FieldOf(res.cat, res.args[i].k)) \in {"int", "float"})
       => res.out.t = "ValueError"

\* a configuration built with only "Infinity" supplied for rate: rate is held
\* as +inf and limit took its default
C5_Witness ==
    /\ Constructed
    /\ res.cat = "configuration"
    /\ res.args = << [k |-> "rate", v |-> StrV("Infinity")] >>
    /\ Get(spData, "rate") = InfV(1)
    /\ Get(spData, "limit") = InfV(1)

\* C22: when take_action is given both an action object (or dict) and keyword
\* arguments that name the same field with different values, the value from
\* the object is the one submitted to the engine.
C22_ObjectTakesPrecedence ==
    (res.op = "take_action" /\ ~IsError(res.out)) =>
        \A i \in DOMAIN res.args : \A j \in DOMAIN res.kwargs :
            (res.args[i].k = res.kwargs[j].k /\ res.args[i].v # res.kwargs[j].v)
                => Get(res.out.w, res.args[i].k)
                       = HeldFor(FieldOf("action", res.args[i].k), res.args[i].v)

-----------------------------------------------------------------------------
(* alpyne/outputs.py: time units; alpyne/data.py: EngineSettings *)

\* TimeUnits.conversion_factor: seconds per unit
conversion_factor(u) ==
    CASE u = "MILLISECOND" -> Rat(1, 1000)
      [] u = "SECOND" -> Rat(1, 1)
      [] u = "MINUTE" -> Rat(60, 1)
      [] u = "HOUR" -> Rat(3600, 1)
      [] u = "DAY" -> Rat(86400, 1)
      [] u = "WEEK" -> Rat(604800, 1)
      [] u = "MONTH" -> Rat(2592000, 1)
      [] u = "YEAR" -> Rat(31536000, 1)

\* TimeUnits.modifier: self.conversion_factor / units.conversion_factor
modifier(u, units) ==
    LET a == conversion_factor(u)
        b == conversion_factor(units)
    IN Rat(Numer(a) * Denom(b), Denom(a) * Numer(b))

\* TimeUnits.convert_to: this_amount * self.modifier(new_units)
convert_to(u, this_amount, new_units) == Mul(this_amount, modifier(u, new_units))

\* timedelta(seconds=x): x rounded to whole microseconds, halves to even
timedelta(x) ==
    IF 1000000 % Denom(x) = 0 THEN x
    ELSE LET d == Denom(x)
             whole == Numer(x) \div d
             r == Numer(x) % d
             ms == (r * 1000) \div d
             r2 == (r * 1000) % d
             us == (r2 * 1000) \div d
             r3 == (r2 * 1000) % d
             micro == ms * 1000 + us
             up == 2 * r3 > d \/ (2 * r3 = d /\ micro % 2 = 1)
         IN Rat(whole * 1000000 + micro + (IF up THEN 1 ELSE 0), 1000000)

\* (a - b).total_seconds() for two datetimes
total_seconds(a, b) == Sub(SecondsOf(a), SecondsOf(b))

\* UnitValue.__call__(new_unit): the value in the new unit
UnitValue__call__(uv, new_unit) ==
    IF (uv.w[1] \in TimeUnitNames) # (new_unit.t = "TimeUnits")
    THEN Raised("TypeError")
    ELSE convert_to(uv.w[1], IntV(uv.v), new_unit.w[1])

\* EngineSettings.stop_time (getter)
stop_time(s) ==
    IF s._using_stop_time
    THEN s._stop_arg
    ELSE convert_to("SECOND", total_seconds(s._stop_arg, s.start_date), s.units.w[1])

\* EngineSettings.stop_time (setter)
stop_time_setter(s, new_value) ==
    [s EXCEPT !._using_stop_time = TRUE,
              !._stop_arg = IF new_value.t = "UnitValue"
                            THEN convert_to(new_value.w[1], IntV(new_value.v), s.units.w[1])
                            ELSE new_value]

\* EngineSettings.stop_date (getter)
stop_date(s) ==
    IF ~s._using_stop_time
    THEN s._stop_arg
    ELSE IF stop_time(s) = InfV(1)
    THEN NoneV
    ELSE LET tdelta == convert_to(s.units.w[1], Sub(stop_time(s), s.start_time), "SECOND") IN
         Date(Add(SecondsOf(s.start_date), timedelta(tdelta)))

\* (mutant for C6) a stop_date setter that leaves the authority with stop_time
StopDateSetterKeepsFlag(s, value) == [s EXCEPT !._stop_arg = value]

\* EngineSettings.stop_date (setter)
stop_date_setter(s, value) == [s EXCEPT !._using_stop_time = FALSE, !._stop_arg = value]

\* typing.EngineSettingKeys
EngineSettingKeys == {"units", "start_time", "start_date", "stop_time", "stop_date", "seed"}

\* setattr(self, key, val) on an EngineSettings
setattr(s, key, val) ==
    CASE key = "stop_time" -> stop_time_setter(s, val)
      [] key = "stop_date" -> stop_date_setter(s, val)
      [] key = "units" -> [s EXCEPT !.units = val]
      [] key = "start_time" -> [s EXCEPT !.start_time = val]
      [] key = "start_date" -> [s EXCEPT !.start_date = val]
      [] key = "seed" -> [s EXCEPT !.seed = val]

\* the loop of EngineSettings.__init__ over the overrides, in the order given
RECURSIVE ApplyOverrides(_, _, _)
ApplyOverrides(s, kwargs, i) ==
    IF i > Len(kwargs) THEN [obj |-> s, err |-> NoneV]
    ELSE IF kwargs[i].k \notin EngineSettingKeys
    THEN [obj |-> s, err |-> Raised("AttributeError")]
    ELSE ApplyOverrides(setattr(s, kwargs[i].k, kwargs[i].v), kwargs, i + 1)

\* EngineSettings.__init__(**override_kwargs)
EngineSettings__init__(override_kwargs) ==
    LET subschema(n) == py_value(FieldOf("engine_settings", n))
        s0 == [_using_stop_time |-> TRUE,
               _stop_arg |-> subschema("stop_time"),
               units |-> subschema("units"),
               start_time |-> subschema("start_time"),
               start_date |-> subschema("start_date"),
               seed |-> subschema("seed")]
        s1 == IF HasKey(override_kwargs, "units")
              THEN [s0 EXCEPT !.units = Get(override_kwargs, "units")]
              ELSE s0
        conv(e) == IF e.k \in {"start_time", "stop_time"} /\ e.v.t = "UnitValue"
                   THEN [k |-> e.k, v |-> UnitValue__call__(e.v, s1.units)]
                   ELSE e
        kw == [i \in DOMAIN override_kwargs |-> conv(override_kwargs[i])]
    IN IF override_kwargs = <<>> THEN [obj |-> s0, err |-> NoneV]
       ELSE IF \E i \in DOMAIN kw : IsError(kw[i].v)
       THEN [obj |-> s1, err |-> Raised("TypeError")]
       ELSE ApplyOverrides(s1, kw, 1)

\* (mutant for C7) an encoder that writes both stop conditions
DefaultBothStops(o) ==
    [t |-> "dict", v |-> 0,
     w |-> << [k |-> "units", v |-> o.units], [k |-> "start_time", v |-> o.start_time],
              [k |-> "start_date", v |-> o.start_date], [k |-> "seed", v |-> o.seed],
              [k |-> "stop_time", v |-> stop_time(o)], [k |-> "stop_date", v |-> stop_date(o)] >>]

\* AlpyneJSONEncoder.default for an EngineSettings: the mapping that is encoded
AlpyneJSONEncoder_default(o) ==
    [t |-> "dict", v |-> 0,
     w |-> << [k |-> "units", v |-> o.units], [k |-> "start_time", v |-> o.start_time],
              [k |-> "start_date", v |-> o.start_date], [k |-> "seed", v |-> o.seed],
              IF o._using_stop_time
              THEN [k |-> "stop_time", v |-> stop_time(o)]
              ELSE [k |-> "stop_date", v |-> stop_date(o)] >>]

-----------------------------------------------------------------------------
(* SpecSettings: an EngineSettings object is constructed with overrides, then
   its attributes are assigned and read and it is encoded for a reset *)

MaxOverrides == 2     \* keyword arguments of the constructor

UnitsUsed == {UnitMember("SECOND"), UnitMember("MINUTE")}
StartTimes == {IntV(0), IntV(30)}
StartDates == {Date(Rat(0, 1)), Date(Rat(245, 1))}
StopTimes == {IntV(90), InfV(1), UnitValue(1, "MINUTE"), UnitValue(100, "SECOND")}
StopDates == {Date(Rat(600, 1)), Date(Rat(491, 2))}

\* the values the caller passes for a key ("stop" is not a settings key)
OverrideValues(k) ==
    CASE k = "units" -> UnitsUsed
      [] k = "start_time" -> {IntV(30), UnitValue(1, "MINUTE")}
      [] k = "start_date" -> {Date(Rat(245, 1))}
      [] k = "stop_time" -> StopTimes
      [] k = "stop_date" -> StopDates
      [] k = "seed" -> {IntV(1)}
      [] k = "stop" -> {IntV(1)}

Overrides ==
    UNION {{kw \in [1..n -> UNION {{[k |-> k, v |-> x] : x \in OverrideValues(k)} :
                                   k \in EngineSettingKeys \cup {"stop"}}] :
            \A i, j \in 1..n : i # j => kw[i].k # kw[j].k} : n \in 0..MaxOverrides}

\* the stop condition given last in the overrides, as the caller gave it, and
\* the units in effect when it was applied
LastStopOf(kwargs, units, before) ==
    LET stops == {i \in DOMAIN kwargs : kwargs[i].k \in {"stop_time", "stop_date"}} IN
    IF stops = {} THEN before
    ELSE LET i == CHOOSE i \in stops : \A j \in stops : j <= i IN
         [kind |-> IF kwargs[i].k = "stop_time" THEN "time" ELSE "date",
          value |-> kwargs[i].v, units |-> units.w[1]]

InitSettings ==
    /\ IdleRun
    /\ IdleSchema
    /\ IdleCodec
    /\ IdleUnitValue
    /\ IdleUnits
    /\ IdleCfg
    /\ IdleSpace
    /\ IdleSim
    /\ IdleSettings

\* EngineSettings(**engine_overrides), as AnyLogicSim.__init__ calls it
NewSettings ==
    /\ esState = "none"
    /\ \E kwargs \in Overrides :
          LET r == EngineSettings__init__(kwargs) IN
          IF IsError(r.err)
          THEN /\ esRes' = [op |-> "__init__", out |-> r.err]
               /\ UNCHANGED <<esState, settings, lastStop>>
          ELSE /\ esState' = "live"
               /\ settings' = r.obj
               /\ lastStop' = LastStopOf(kwargs, r.obj.units, NoStop)
               /\ esRes' = [op |-> "__init__", out |-> NoneV]
    /\ UNCHANGED exceptSettings

\* settings.units = u, settings.start_time = x, settings.start_date = d
AssignAttribute ==
    /\ esState = "live"
    /\ \E key \in {"units", "start_time", "start_date"} :
       \E val \in (CASE key = "units" -> UnitsUsed
                     [] key = "start_time" -> StartTimes
                     [] key = "start_date" -> StartDates) :
          /\ settings' = setattr(settings, key, val)
          /\ esRes' = [op |-> key, out |-> NoneV]
    /\ UNCHANGED <<esState, lastStop>>
    /\ UNCHANGED exceptSettings

\* settings.stop_time = new_value
AssignStopTime ==
    /\ esState = "live"
    /\ \E new_value \in StopTimes :
          /\ settings' = stop_time_setter(settings, new_value)
          /\ lastStop' = [kind |-> "time", value |-> new_value, units |-> settings.units.w[1]]
          /\ esRes' = [op |-> "stop_time=", out |-> NoneV]
    /\ UNCHANGED esState
    /\ UNCHANGED exceptSettings

\* settings.stop_date = value
AssignStopDate ==
    /\ esState = "live"
    /\ \E value \in StopDates :
          /\ settings' = stop_date_setter(settings, value)
          /\ lastStop' = [kind |-> "date", value |-> value, units |-> settings.units.w[1]]
          /\ esRes' = [op |-> "stop_date=", out |-> NoneV]
    /\ UNCHANGED esState
    /\ UNCHANGED exceptSettings

\* settings.stop_time
ReadStopTime ==
    /\ esState = "live"
    /\ esRes' = [op |-> "stop_time", out |-> stop_time(settings)]
    /\ UNCHANGED <<esState, settings, lastStop>>
    /\ UNCHANGED exceptSettings

\* settings.stop_date
ReadStopDate ==
    /\ esState = "live"
    /\ esRes' = [op |-> "stop_date", out |-> stop_date(settings)]
    /\ UNCHANGED <<esState, settings, lastStop>>
    /\ UNCHANGED exceptSettings

\* the engine_settings part of the body that AnyLogicSim.reset sends:
\* json.dumps(dict(configuration=..., engine_settings=self.engine_settings))
EncodeForReset ==
    /\ esState = "live"
    /\ esRes' = [op |-> "encode", out |-> AlpyneJSONEncoder_default(settings)]
    /\ UNCHANGED <<esState, settings, lastStop>>
    /\ UNCHANGED exceptSettings

NextSettings ==
    \/ NewSettings
    \/ AssignAttribute
    \/ AssignStopTime
    \/ AssignStopDate
    \/ ReadStopTime
    \/ ReadStopDate
    \/ EncodeForReset

SpecSettings == InitSettings /\ [][NextSettings]_vars

-----------------------------------------------------------------------------
(* Claims about the engine settings, checked under SpecSettings *)

\* the stop time in force when the last stop condition assigned was a time (or
\* none was): the schema default, the number assigned, or the number that the
\* assigned UnitValue converts to in the units in effect at the assignment
TimeInForce ==
    IF lastStop.kind = "none" THEN InfV(1)
    ELSE IF lastStop.value.t = "UnitValue"
    THEN convert_to(lastStop.value.w[1], IntV(lastStop.value.v), lastStop.units)
    ELSE lastStop.value

\* the stop date derived from a stop time, the current units and start values
DerivedDate(time) ==
    IF time = InfV(1) THEN NoneV
    ELSE Date(Add(SecondsOf(settings.start_date),
                  timedelta(Mul(Sub(time, settings.start_time),
                                conversion_factor(settings.units.w[1])))))

\* the stop time derived from a stop date, the current units and start date
DerivedTime(date) ==
    LET secs == Sub(SecondsOf(date), SecondsOf(settings.start_date))
        f == conversion_factor(settings.units.w[1])
    IN Rat(Numer(secs) * Denom(f), Denom(secs) * Numer(f))

\* C6 as claimed: exactly one of stop_time and stop_date is authoritative, the
\* one assigned most recently (stop_time when neither was assigned); reading
\* the authoritative one returns the assigned value and reading the other
\* returns a value derived from it, the current units and the start values.
C6_AuthoritativeReturnsAssigned ==
    esState = "live" =>
        /\ settings._using_stop_time = (lastStop.kind # "date")
        /\ esRes.op = "stop_time" =>
              esRes.out = CASE lastStop.kind = "none" -> InfV(1)
                            [] lastStop.kind = "time" -> lastStop.value
                            [] lastStop.kind = "date" -> DerivedTime(lastStop.value)
        /\ esRes.op = "stop_date" =>
              esRes.out = CASE lastStop.kind = "date" -> lastStop.value
                            [] OTHER -> DerivedDate(TimeInForce)

\* C6 amended: exactly one of stop_time and stop_date is authoritative, the
\* one assigned most recently (stop_time when neither was assigned); reading
\* the authoritative one returns the assigned value, a UnitValue assigned to
\* stop_time being returned as the number it converts to in the units in
\* effect at the assignment; reading the other returns a value derived from
\* it, the current units and the start values (no date for an infinite time).
C6_AuthoritativeReturnsAssignedNumber ==
    esState = "live" =>
        /\ settings._using_stop_time = (lastStop.kind # "date")
        /\ esRes.op = "stop_time" =>
              esRes.out = CASE lastStop.kind = "date" -> DerivedTime(lastStop.value)
                            [] OTHER -> TimeInForce
        /\ esRes.op = "stop_date" =>
              esRes.out = CASE lastStop.kind = "date" -> lastStop.value
                            [] OTHER -> DerivedDate(TimeInForce)

\* after a stop time and then a stop date were assigned, stop_time is read in
\* minutes and is derived from the date
C6_Witness ==
    /\ esState = "live"
    /\ lastStop.kind = "date"
    /\ ~settings._using_stop_time
    /\ settings.units = UnitMember("MINUTE")
    /\ esRes.op = "stop_time"
    /\ esRes.out = Rat(491, 120)

KeysOf(d) == {d.w[i].k : i \in DOMAIN d.w}

\* C7: the encoded form of an EngineSettings sent with a reset contains the
\* keys units, start_time, start_date and seed plus exactly one of stop_time /
\* stop_date: stop_time if and only if the last stop condition assigned was a
\* stop time (or none was assigned), otherwise stop_date.
C7_EncodedHasOneStopKey ==
    esRes.op = "encode" =>
        /\ Len(esRes.out.w) = 5
        /\ KeysOf(esRes.out) =
              {"units", "start_time", "start_date", "seed"}
              \cup (IF lastStop.kind = "date" THEN {"stop_date"} ELSE {"stop_time"})

\* settings whose last stop condition is a date, encoded with stop_date only
C7_Witness ==
    /\ esRes.op = "encode"
    /\ lastStop.kind = "date"
    /\ "stop_date" \in KeysOf(esRes.out)
    /\ "stop_time" \notin KeysOf(esRes.out)

\* the settings after "settings.stop_date = settings.stop_date"
StopDateReassigned == stop_date_setter(settings, stop_date(settings))

\* C28 as claimed: in time-authoritative mode with a finite stop time, after
\* stop_date is assigned the value just read from stop_date, the value read
\* from stop_time equals (as a number) the value read from it before.
C28_StopDateRoundTripKeepsStopTime ==
    (/\ esState = "live"
     /\ settings._using_stop_time
     /\ esRes.op = "stop_time"
     /\ ~IsInf(esRes.out))
    => (/\ stop_time(StopDateReassigned).v = esRes.out.v
        /\ stop_time(StopDateReassigned).w = esRes.out.w)

-----------------------------------------------------------------------------
(* alpyne/constants.py: EngineState; alpyne/sim.py: AnyLogicSim;
   alpyne/client: HttpClient.api_request and AlpyneClient.wait_for *)

\* the members of EngineState, in the order of their definition
EngineState == <<"IDLE", "PAUSED", "RUNNING", "FINISHED", "ERROR", "PLEASE_WAIT">>

\* EngineState.ready()
ready == {"PAUSED", "FINISHED", "ERROR"}

\* names = [state.name for state in EngineState if flag & state]
names(flag) == SelectSeq(EngineState, LAMBDA st : st \in flag)

\* the flag argument of lock: None, or a set of states
NoFlag == [given |-> FALSE, states |-> {}]
Flag(states) == [given |-> TRUE, states |-> states]

\* (mutant for C9) a lock that waits for any state when no flag is given
LockFlagAny(flag, defaults) == IF flag.given THEN flag.states ELSE Range(EngineState)

\* AnyLogicSim.lock: None is replaced by the default of the constructor
LockFlag(flag, defaults) == IF flag.given THEN flag.states ELSE defaults.flag

\* a decoded status record: its state and its sequence_id
SimStatus(state, seq) == [t |-> "SimStatus", v |-> seq, w |-> <<state>>]

\* ModelError(status, ...)
ModelError(status) == [t |-> "ModelError", v |-> status, w |-> <<>>]

\* HttpClient.api_request: maxUrlErrors
maxUrlErrors == 10

\* HttpClient.api_request: urlErrorCounter < maxUrlErrors
ShouldRetry(counter) == counter < maxUrlErrors

\* (mutant for C12) a request that lets the interrupt through
InterruptPropagates(endpoint) == Raised("KeyboardInterrupt")

\* AnyLogicSim._request, except KeyboardInterrupt: raise ExitException("Exit requested.")
_request_interrupted(endpoint) == Raised("ExitException")

-----------------------------------------------------------------------------
(* The engine's server, as the client's documentation describes it *)

\* the status code of the answer to a lock request: the status once the engine
\* is in one of the states asked for, REQUEST_TIMEOUT when the timeout elapses
LockAnswer(state, wanted) == IF state \in wanted THEN 200 ELSE 408

\* an action is applied only while the engine is PAUSED; a reset always
Accepts(op, state) == op = "take_action" => state = "PAUSED"

\* after a reset or an action the model runs on in the background
AfterRl == {"PLEASE_WAIT", "RUNNING"}

-----------------------------------------------------------------------------
(* SpecSim: a client handle issues blocking calls; the server answers each
   request while the engine runs on its own *)

MaxRequests == 2     \* resets and actions the server applies

Clients == {"AnyLogicSim", "AlpyneClient"}
DefaultFlags == {ready, {"RUNNING", "PAUSED"}}
LockArgs == {NoFlag, Flag({"PAUSED"})}

InitSim ==
    /\ IdleRun
    /\ IdleSchema
    /\ IdleCodec
    /\ IdleUnitValue
    /\ IdleUnits
    /\ IdleCfg
    /\ IdleSpace
    /\ IdleSettings
    /\ client \in Clients
    /\ auto_wait \in (IF client = "AnyLogicSim" THEN BOOLEAN ELSE {FALSE})
    /\ _lock_defaults \in {[flag |-> f, timeout |-> 30] :
                              f \in (IF client = "AnyLogicSim" THEN DefaultFlags ELSE {ready})}
    /\ _last_status = NoneV
    /\ engine = "IDLE"
    /\ sequence_id = 0
    /\ pc = NoCall
    /\ sends = 0
    /\ urlErrorCounter = 0
    /\ outcome = NoOut

\* the request of a call goes out for the first time
Send(op, req, flag) ==
    /\ pc' = [op |-> op, req |-> req, flag |-> flag]
    /\ sends' = 1
    /\ urlErrorCounter' = 0
    /\ outcome' = NoOut

\* the call in progress returns val or raises it
Finish(val, cause) ==
    /\ outcome' = [op |-> pc.op, val |-> val, flag |-> pc.flag, cause |-> cause,
                   sent |-> sends, locked |-> (pc.req = "lock")]
    /\ pc' = NoCall
    /\ sends' = 0
    /\ urlErrorCounter' = 0

\* HttpClient.api_request, except URLError: the request is sent again until
\* the counter reaches maxUrlErrors; then ModelError(err.code, ...) is raised,
\* which is an AttributeError for a URLError without a code
URLError(code, cause) ==
    IF ShouldRetry(urlErrorCounter)
    THEN /\ urlErrorCounter' = urlErrorCounter + 1
         /\ sends' = sends + 1
         /\ UNCHANGED <<pc, outcome>>
    ELSE Finish(IF code = 0 THEN Raised("AttributeError") ELSE ModelError(code), cause)

\* the client receives an error status (4xx, 5xx): AnyLogicSim._request raises
\* HTTPError; urlopen raises HTTPError, a URLError, inside api_request
ErrorStatusReceived(code, cause) ==
    IF client = "AnyLogicSim"
    THEN Finish(Raised("HTTPError"), cause)
    ELSE URLError(code, cause)

\* AnyLogicSim.reset: PUT rl
reset ==
    /\ client = "AnyLogicSim"
    /\ pc = NoCall
    /\ sequence_id < MaxRequests
    /\ Send("reset", "rl", {})
    /\ UNCHANGED <<client, auto_wait, _lock_defaults, _last_status, engine, sequence_id>>
    /\ UNCHANGED exceptSim

\* AnyLogicSim.take_action: PATCH rl
take_action ==
    /\ client = "AnyLogicSim"
    /\ pc = NoCall
    /\ sequence_id < MaxRequests
    /\ Send("take_action", "rl", {})
    /\ UNCHANGED <<client, auto_wait, _lock_defaults, _last_status, engine, sequence_id>>
    /\ UNCHANGED exceptSim

\* AnyLogicSim.lock(flag, timeout): GET lock with the names of the flag
lock ==
    /\ client = "AnyLogicSim"
    /\ pc = NoCall
    /\ \E flag \in LockArgs : Send("lock", "lock", Range(names(LockFlag(flag, _lock_defaults))))
    /\ UNCHANGED <<client, auto_wait, _lock_defaults, _last_status, engine, sequence_id>>
    /\ UNCHANGED exceptSim

\* AnyLogicSim.status: GET status
status ==
    /\ client = "AnyLogicSim"
    /\ pc = NoCall
    /\ Send("status", "status", {})
    /\ UNCHANGED <<client, auto_wait, _lock_defaults, _last_status, engine, sequence_id>>
    /\ UNCHANGED exceptSim

\* AlpyneClient.wait_for(flag, timeout): GET /engine/lock through api_request
wait_for ==
    /\ client = "AlpyneClient"
    /\ pc = NoCall
    /\ \E flag \in DefaultFlags : Send("wait_for", "lock", Range(names(flag)))
    /\ UNCHANGED <<client, auto_wait, _lock_defaults, _last_status, engine, sequence_id>>
    /\ UNCHANGED exceptSim

\* the server applies a reset, or an action while the engine is PAUSED, and
\* answers; with auto_wait the client goes on with self.lock()
RlAnswered ==
    /\ pc.req = "rl"
    /\ Accepts(pc.op, engine)
    /\ engine' \in AfterRl
    /\ sequence_id' = sequence_id + 1
    /\ IF auto_wait
       THEN /\ pc' = [pc EXCEPT !.req = "lock",
                                !.flag = Range(names(LockFlag(NoFlag, _lock_defaults)))]
            /\ sends' = 1
            /\ UNCHANGED <<urlErrorCounter, outcome>>
       ELSE Finish(NoneV, "ok")
    /\ UNCHANGED <<client, auto_wait, _lock_defaults, _last_status>>
    /\ UNCHANGED exceptSim

\* the server rejects an action while the engine is not PAUSED
ActionRejected ==
    /\ pc.req = "rl"
    /\ ~Accepts(pc.op, engine)
    /\ ErrorStatusReceived(400, "rejected")
    /\ UNCHANGED <<client, auto_wait, _lock_defaults, _last_status, engine, sequence_id>>
    /\ UNCHANGED exceptSim

\* the engine is in one of the states asked for: the server answers the lock
\* request with the status; AnyLogicSim.lock keeps it as _last_status
LockMatched ==
    /\ pc.req = "lock"
    /\ LockAnswer(engine, pc.flag) = 200
    /\ Finish(SimStatus(engine, sequence_id), "ok")
    /\ _last_status' = IF client = "AnyLogicSim"
                       THEN SimStatus(engine, sequence_id)
                       ELSE _last_status
    /\ UNCHANGED <<client, auto_wait, _lock_defaults, engine, sequence_id>>
    /\ UNCHANGED exceptSim

\* the timeout of a lock request elapses while the engine is in none of the
\* states asked for: the server answers 408 (REQUEST_TIMEOUT)
LockTimedOut ==
    /\ pc.req = "lock"
    /\ LockAnswer(engine, pc.flag) = 408
    /\ ErrorStatusReceived(408, "timeout")
    /\ UNCHANGED <<client, auto_wait, _lock_defaults, _last_status, engine, sequence_id>>
    /\ UNCHANGED exceptSim

\* the server answers GET status
StatusAnswered ==
    /\ pc.req = "status"
    /\ Finish(SimStatus(engine, sequence_id), "ok")
    /\ UNCHANGED <<client, auto_wait, _lock_defaults, _last_status, engine, sequence_id>>
    /\ UNCHANGED exceptSim

\* the server answers a request with an internal error (5xx)
ErrorStatus ==
    /\ pc.req # "none"
    /\ ErrorStatusReceived(500, "error status")
    /\ UNCHANGED <<client, auto_wait, _lock_defaults, _last_status, engine, sequence_id>>
    /\ UNCHANGED exceptSim

\* the connection fails: requests raises ConnectionError, which _request lets
\* through; urlopen raises a URLError without a code
ConnectionFailed ==
    /\ pc.req # "none"
    /\ IF client = "AnyLogicSim"
       THEN Finish(Raised("ConnectionError"), "connection")
       ELSE URLError(0, "connection")
    /\ UNCHANGED <<client, auto_wait, _lock_defaults, _last_status, engine, sequence_id>>
    /\ UNCHANGED exceptSim

\* HttpClient.api_request, except socket.timeout: urlopen's own timeout fires
SocketTimeout ==
    /\ client = "AlpyneClient"
    /\ pc.req # "none"
    /\ Finish(ModelError(0), "socket.timeout")
    /\ UNCHANGED <<client, auto_wait, _lock_defaults, _last_status, engine, sequence_id>>
    /\ UNCHANGED exceptSim

\* the caller interrupts (ctrl-c) while the request of a call is in flight
KeyboardInterrupt ==
    /\ client = "AnyLogicSim"
    /\ pc.req # "none"
    /\ Finish(_request_interrupted(pc.req), "interrupt")
    /\ UNCHANGED <<client, auto_wait, _lock_defaults, _last_status, engine, sequence_id>>
    /\ UNCHANGED exceptSim

\* the engine runs on: an uninterruptible command ends, or the run reaches an
\* action request, its end or an error
EngineRuns ==
    /\ \/ engine = "PLEASE_WAIT" /\ engine' = "RUNNING"
       \/ engine = "RUNNING" /\ engine' \in {"PAUSED", "FINISHED", "ERROR"}
    /\ UNCHANGED <<client, auto_wait, _lock_defaults, _last_status, sequence_id,
                   pc, sends, urlErrorCounter, outcome>>
    /\ UNCHANGED exceptSim

NextSim ==
    \/ reset
    \/ take_action
    \/ lock
    \/ status
    \/ wait_for
    \/ RlAnswered
    \/ ActionRejected
    \/ LockMatched
    \/ LockTimedOut
    \/ StatusAnswered
    \/ ErrorStatus
    \/ ConnectionFailed
    \/ SocketTimeout
    \/ KeyboardInterrupt
    \/ EngineRuns

SpecSim == InitSim /\ [][NextSim]_vars

-----------------------------------------------------------------------------
(* Claims about the client calls, checked under SpecSim *)

\* C8: lock(flag, timeout): if the engine's state does not intersect flag
\* before the timeout elapses, the call fails with TimeoutError; it never
\* returns a status whose state is outside flag and never fails with a
\* different error type for a timeout.
C8_LockTimeoutRaisesTimeoutError ==
    /\ outcome.cause = "timeout" => outcome.val.t = "TimeoutError"
    /\ (outcome.op \in {"lock", "wait_for"} /\ outcome.val.t = "SimStatus")
       => outcome.val.w[1] \in outcome.flag

C10_AtMostOneSend ==
    /\ sends <= 1
    /\ outcome.sent <= 1

\* C11: whenever the engine answers a request with an error status (any 4xx or
\* 5xx), the client operation fails with ModelError, never with the transport
\* library's own exception type.
C11_ErrorStatusRaisesModelError ==
    outcome.cause \in {"rejected", "timeout", "error status"}
        => outcome.val.t = "ModelError"

C24_LastStatusIsMostRecentPoll ==
    (client = "AnyLogicSim" /\ outcome.val.t = "SimStatus")
        => _last_status = outcome.val

-----------------------------------------------------------------------------
(* alpyne/outputs.py: the unit enumerations *)

\* the primes that occur in the conversion factors
Gens == <<"2", "3", "5", "7", "11", "13", "19", "73", "127", "241", "557", "601",
          "2731", "6343", "2126724289", "1002742628021">>

\* a positive rational as the exponents of its prime factors; f maps the
\* primes that occur to their exponents
Q(f) == [i \in 1..Len(Gens) |-> IF Gens[i] \in DOMAIN f THEN f[Gens[i]] ELSE 0]
One == Q(<<>>)
QMul(a, b) == [i \in DOMAIN a |-> a[i] + b[i]]
QDiv(a, b) == [i \in DOMAIN a |-> a[i] - b[i]]

\* a float: its sign (-1, 0, 1) and the factorisation of its absolute value
QFloat(sign, exps) == [t |-> "qfloat", v |-> sign, w |-> IF sign = 0 THEN One ELSE exps]

\* a * b and a / b on floats; an exception raised while an operand is
\* evaluated is what the expression raises
FMul(a, b) ==
    IF IsError(a) THEN a ELSE IF IsError(b) THEN b
    ELSE QFloat(a.v * b.v, QMul(a.w, b.w))
FDiv(a, b) ==
    IF IsError(a) THEN a ELSE IF IsError(b) THEN b
    ELSE IF b.v = 0 THEN Raised("ZeroDivisionError")
    ELSE QFloat(a.v * b.v, QDiv(a.w, b.w))

\* the members of each unit class, in the order of their definition
AmountUnits == <<"LITER", "OIL_BARREL", "CUBIC_METER", "KILOGRAM", "TON">>
TimeUnits == <<"MILLISECOND", "SECOND", "MINUTE", "HOUR", "DAY", "WEEK", "MONTH", "YEAR">>
LengthUnits == <<"MILLIMETER", "CENTIMETER", "METER", "KILOMETER", "INCH", "FOOT", "YARD",
                 "MILE", "NAUTICAL_MILE">>
AngleUnits == <<"TURN", "RADIAN", "DEGREE">>
AreaUnits == <<"SQ_MILLIMETER", "SQ_CENTIMETER", "SQ_METER", "SQ_KILOMETER", "SQ_INCH",
               "SQ_FOOT", "SQ_YARD", "SQ_MILE", "SQ_NAUTICAL_MILE">>
RateUnits == <<"PER_MILLISECOND", "PER_SECOND", "PER_MINUTE", "PER_HOUR", "PER_DAY",
               "PER_WEEK", "PER_MONTH", "PER_YEAR">>
AccelerationUnits == <<"MPS_SQ", "FPS_SQ">>
SpeedUnits == <<"MPS", "KPH", "FPS", "FPM", "MPH", "KN">>
FlowRateUnits == <<"LITER_PER_SECOND", "OIL_BARREL_PER_SECOND", "CUBIC_METER_PER_SECOND",
                   "KILOGRAM_PER_SECOND", "TON_PER_SECOND">>
RotationSpeedUnits == <<"RPM", "RAD_PER_SECOND", "DEG_PER_SECOND">>

UnitClasses == <<"AmountUnits", "TimeUnits", "LengthUnits", "AngleUnits", "AreaUnits",
                 "RateUnits", "AccelerationUnits", "SpeedUnits", "FlowRateUnits",
                 "RotationSpeedUnits">>

MembersOf(c) ==
    CASE c = "AmountUnits" -> AmountUnits
      [] c = "TimeUnits" -> TimeUnits
      [] c = "LengthUnits" -> LengthUnits
      [] c = "AngleUnits" -> AngleUnits
      [] c = "AreaUnits" -> AreaUnits
      [] c = "RateUnits" -> RateUnits
      [] c = "AccelerationUnits" -> AccelerationUnits
      [] c = "SpeedUnits" -> SpeedUnits
      [] c = "FlowRateUnits" -> FlowRateUnits
      [] c = "RotationSpeedUnits" -> RotationSpeedUnits

\* a member of a unit class
Unit(c, n) == [cls |-> c, name |-> n]

\* the conversion_factor of the members of AmountUnits, TimeUnits, LengthUnits
\* and AngleUnits (the decimal literal of the source as an exact fraction)
NumericUnitAttrs(n) ==
    CASE n \in {"LITER", "MILLISECOND", "MILLIMETER"} -> Q("2" :> -3 @@ "5" :> -3)
      [] n \in {"CUBIC_METER", "KILOGRAM", "SECOND", "METER", "RADIAN"} -> One
      [] n \in {"TON", "KILOMETER"} -> Q("2" :> 3 @@ "5" :> 3)
      [] n = "OIL_BARREL" -> Q("3" :> 2 @@ "557" :> 1 @@ "6343" :> 1 @@ "2" :> -9 @@ "5" :> -8)
      [] n = "MINUTE" -> Q("2" :> 2 @@ "3" :> 1 @@ "5" :> 1)
      [] n = "HOUR" -> Q("2" :> 4 @@ "3" :> 2 @@ "5" :> 2)
      [] n = "DAY" -> Q("2" :> 7 @@ "3" :> 3 @@ "5" :> 2)
      [] n = "WEEK" -> Q("2" :> 7 @@ "3" :> 3 @@ "5" :> 2 @@ "7" :> 1)
      [] n = "MONTH" -> Q("2" :> 8 @@ "3" :> 4 @@ "5" :> 3)
      [] n = "YEAR" -> Q("2" :> 7 @@ "3" :> 3 @@ "5" :> 3 @@ "73" :> 1)
      [] n = "CENTIMETER" -> Q("2" :> -2 @@ "5" :> -2)
      [] n = "INCH" -> Q("127" :> 1 @@ "2" :> -3 @@ "5" :> -4)
      [] n = "FOOT" -> Q("3" :> 1 @@ "127" :> 1 @@ "2" :> -1 @@ "5" :> -4)
      [] n = "YARD" -> Q("3" :> 2 @@ "127" :> 1 @@ "2" :> -1 @@ "5" :> -4)
      [] n = "MILE" -> Q("2" :> 4 @@ "3" :> 2 @@ "11" :> 1 @@ "127" :> 1 @@ "5" :> -3)
      [] n = "NAUTICAL_MILE" -> Q("2" :> 5 @@ "3" :> 1 @@ "19" :> 1 @@ "127" :> 1 @@ "5" :> -3)
      [] n = "TURN" -> Q("13" :> 1 @@ "241" :> 1 @@ "1002742628021" :> 1 @@ "2" :> -14 @@ "5" :> -15)
      [] n = "DEGREE" -> Q("601" :> 1 @@ "2731" :> 1 @@ "2126724289" :> 1 @@ "2" :> -18 @@ "5" :> -17)

\* the length_unit of the members of AreaUnits, AccelerationUnits and SpeedUnits
SpaceUnitAttrs(n) ==
    CASE n = "SQ_MILLIMETER" -> "MILLIMETER"
      [] n = "SQ_CENTIMETER" -> "CENTIMETER"
      [] n \in {"SQ_METER", "MPS_SQ", "MPS"} -> "METER"
      [] n \in {"SQ_KILOMETER", "KPH"} -> "KILOMETER"
      [] n = "SQ_INCH" -> "INCH"
      [] n \in {"SQ_FOOT", "FPS_SQ", "FPS", "FPM"} -> "FOOT"
      [] n = "SQ_YARD" -> "YARD"
      [] n \in {"SQ_MILE", "MPH"} -> "MILE"
      [] n \in {"SQ_NAUTICAL_MILE", "KN"} -> "NAUTICAL_MILE"

\* the time_unit of the members of RateUnits, AccelerationUnits, SpeedUnits,
\* FlowRateUnits and RotationSpeedUnits
RateUnitAttrs(n) ==
    CASE n = "PER_MILLISECOND" -> "MILLISECOND"
      [] n = "PER_MINUTE" -> "MINUTE"
      [] n = "PER_HOUR" -> "HOUR"
      [] n = "PER_DAY" -> "DAY"
      [] n = "PER_WEEK" -> "WEEK"
      [] n = "PER_MONTH" -> "MONTH"
      [] n = "PER_YEAR" -> "YEAR"
      [] n \in {"KPH", "MPH", "KN"} -> "HOUR"
      [] n \in {"FPM", "RPM"} -> "MINUTE"
      [] OTHER -> "SECOND"

\* the amount_unit of the members of FlowRateUnits and the angle_unit of the
\* members of RotationSpeedUnits
VelocityUnitAttrs(n) ==
    CASE n = "LITER_PER_SECOND" -> "LITER"
      [] n = "OIL_BARREL_PER_SECOND" -> "OIL_BARREL"
      [] n = "CUBIC_METER_PER_SECOND" -> "CUBIC_METER"
      [] n = "KILOGRAM_PER_SECOND" -> "KILOGRAM"
      [] n = "TON_PER_SECOND" -> "TON"
      [] n = "RPM" -> "TURN"
      [] n = "RAD_PER_SECOND" -> "RADIAN"
      [] n = "DEG_PER_SECOND" -> "DEGREE"

\* hasattr(u, attr): the attributes the __init__ of each unit class sets
HasAttr(u, attr) ==
    CASE attr = "conversion_factor" ->
            u.cls \in {"AmountUnits", "TimeUnits", "LengthUnits", "AngleUnits"}
      [] attr = "si" -> u.cls = "AreaUnits"
      [] attr = "length_unit" -> u.cls \in {"AreaUnits", "AccelerationUnits", "SpeedUnits"}
      [] attr = "time_unit" ->
            u.cls \in {"RateUnits", "AccelerationUnits", "SpeedUnits", "FlowRateUnits",
                       "RotationSpeedUnits"}
      [] attr = "amount_unit" -> u.cls = "FlowRateUnits"
      [] attr = "angle_unit" -> u.cls = "RotationSpeedUnits"

\* (mutant for C13) a modifier that does not divide by the other unit's factor
ModifierOwnFactor(self, units) == QFloat(1, NumericUnitAttrs(self.name))

\* AmountUnits.modifier, TimeUnits.modifier, LengthUnits.modifier,
\* AngleUnits.modifier: self.conversion_factor / units.conversion_factor
numeric_modifier(self, units) ==
    IF ~HasAttr(units, "conversion_factor") THEN Raised("AttributeError")
    ELSE FDiv(QFloat(1, NumericUnitAttrs(self.name)), QFloat(1, NumericUnitAttrs(units.name)))

\* AreaUnits.__init__: self.si = length_unit.modifier(LengthUnits.METER) ** 2
si(u) ==
    LET m == numeric_modifier(Unit("LengthUnits", SpaceUnitAttrs(u.name)),
                              Unit("LengthUnits", "METER"))
    IN FMul(m, m)

\* AreaUnits.modifier: self.si / units.si
AreaUnits_modifier(self, units) ==
    IF ~HasAttr(units, "si") THEN Raised("AttributeError")
    ELSE FDiv(si(self), si(units))

\* x.time_unit.modifier(y.time_unit)
time_modifier(self, units) ==
    IF ~HasAttr(units, "time_unit") THEN Raised("AttributeError")
    ELSE numeric_modifier(Unit("TimeUnits", RateUnitAttrs(self.name)),
                          Unit("TimeUnits", RateUnitAttrs(units.name)))

\* x.length_unit.modifier(y.length_unit)
length_modifier(self, units) ==
    IF ~HasAttr(units, "length_unit") THEN Raised("AttributeError")
    ELSE numeric_modifier(Unit("LengthUnits", SpaceUnitAttrs(self.name)),
                          Unit("LengthUnits", SpaceUnitAttrs(units.name)))

\* RateUnits.modifier: 1.0 / self.time_unit.modifier(units.time_unit)
RateUnits_modifier(self, units) == FDiv(QFloat(1, One), time_modifier(self, units))

\* AccelerationUnits.modifier:
\* d = self.time_unit.modifier(units.time_unit)
\* return self.length_unit.modifier(units.length_unit) / d * d
AccelerationUnits_modifier(self, units) ==
    LET d == time_modifier(self, units) IN
    IF IsError(d) THEN d
    ELSE FMul(FDiv(length_modifier(self, units), d), d)

\* SpeedUnits.modifier:
\* self.length_unit.modifier(units.length_unit) / self.time_unit.modifier(units.time_unit)
SpeedUnits_modifier(self, units) ==
    FDiv(length_modifier(self, units), time_modifier(self, units))

\* FlowRateUnits.modifier:
\* self.amount_unit.modifier(units.amount_unit) / self.time_unit.modifier(units.time_unit)
FlowRateUnits_modifier(self, units) ==
    IF ~HasAttr(units, "amount_unit") THEN Raised("AttributeError")
    ELSE FDiv(numeric_modifier(Unit("AmountUnits", VelocityUnitAttrs(self.name)),
                               Unit("AmountUnits", VelocityUnitAttrs(units.name))),
              time_modifier(self, units))

\* RotationSpeedUnits.modifier:
\* self.angle_unit.modifier(units.angle_unit) / self.time_unit.modifier(units.time_unit)
RotationSpeedUnits_modifier(self, units) ==
    IF ~HasAttr(units, "angle_unit") THEN Raised("AttributeError")
    ELSE FDiv(numeric_modifier(Unit("AngleUnits", VelocityUnitAttrs(self.name)),
                               Unit("AngleUnits", VelocityUnitAttrs(units.name))),
              time_modifier(self, units))

\* self.modifier(units), dispatched on the class of self
_UnitEnum_modifier(self, units) ==
    CASE self.cls = "AreaUnits" -> AreaUnits_modifier(self, units)
      [] self.cls = "RateUnits" -> RateUnits_modifier(self, units)
      [] self.cls = "AccelerationUnits" -> AccelerationUnits_modifier(self, units)
      [] self.cls = "SpeedUnits" -> SpeedUnits_modifier(self, units)
      [] self.cls = "FlowRateUnits" -> FlowRateUnits_modifier(self, units)
      [] self.cls = "RotationSpeedUnits" -> RotationSpeedUnits_modifier(self, units)
      [] OTHER -> numeric_modifier(self, units)

\* self.convert_to(this_amount, new_units): this_amount * self.modifier(new_units)
_UnitEnum_convert_to(self, this_amount, new_units) ==
    FMul(this_amount, _UnitEnum_modifier(self, new_units))

-----------------------------------------------------------------------------
(* SpecUnits: an amount in some unit is converted from unit to unit *)

MaxHops == 2      \* conversions applied to one amount

AllUnits ==
    UNION {{Unit(UnitClasses[i], MembersOf(UnitClasses[i])[j]) :
                j \in DOMAIN MembersOf(UnitClasses[i])} : i \in DOMAIN UnitClasses}

\* the amounts converted: 0, 1 and -3/2
Amounts == {QFloat(0, One), QFloat(1, One), QFloat(-1, Q("3" :> 1 @@ "2" :> -1))}

\* the class defined after c, the first one after the last
NextClass(c) ==
    LET i == CHOOSE k \in DOMAIN UnitClasses : UnitClasses[k] = c
    IN UnitClasses[(i % Len(UnitClasses)) + 1]

\* the units a caller converts to: every unit of the same class, and the
\* first unit of the class defined next
Targets(u) ==
    {v \in AllUnits : v.cls = u.cls
                       \/ (v.cls = NextClass(u.cls) /\ v.name = MembersOf(v.cls)[1])}

UCall(op, self, units, out) == [op |-> op, self |-> self, units |-> units, out |-> out]

InitUnits ==
    /\ IdleRun
    /\ IdleSchema
    /\ IdleCodec
    /\ IdleUnitValue
    /\ IdleCfg
    /\ IdleSpace
    /\ IdleSettings
    /\ IdleSim
    /\ unit \in AllUnits
    /\ amount \in Amounts
    /\ first = [amount |-> amount, unit |-> unit]
    /\ hops = 0
    /\ ures = UCall("none", NoUnit, NoUnit, NoneV)

\* unit.modifier(units)
Modifier ==
    /\ \E units \in Targets(unit) :
          ures' = UCall("modifier", unit, units, _UnitEnum_modifier(unit, units))
    /\ UNCHANGED <<amount, unit, first, hops>>
    /\ UNCHANGED exceptUnits

\* amount = unit.convert_to(amount, new_units); the caller goes on with the
\* amount in the new unit unless the call raised
ConvertTo ==
    /\ hops < MaxHops
    /\ \E new_units \in Targets(unit) :
          LET r == _UnitEnum_convert_to(unit, amount, new_units) IN
          /\ ures' = UCall("convert_to", unit, new_units, r)
          /\ IF IsError(r)
             THEN UNCHANGED <<amount, unit, hops>>
             ELSE amount' = r /\ unit' = new_units /\ hops' = hops + 1
    /\ UNCHANGED first
    /\ UNCHANGED exceptUnits

NextUnits ==
    \/ Modifier
    \/ ConvertTo

SpecUnits == InitUnits /\ [][NextUnits]_vars

-----------------------------------------------------------------------------
(* Claims about the unit enumerations, checked under SpecUnits *)

\* C13: for every unit family and every pair of units a, b of that family,
\* modifier(a, b) * modifier(b, a) = 1, and an amount converted from a to b and
\* back from b to a is the original amount; the compound families included.
C13_ConversionRoundTrip ==
    /\ (ures.op = "modifier" /\ ures.self.cls = ures.units.cls)
       => FMul(ures.out, _UnitEnum_modifier(ures.units, ures.self)) = QFloat(1, One)
    /\ (/\ ures.op = "convert_to"
        /\ ~IsError(ures.out)
        /\ hops = 2
        /\ ures.self.cls = first.unit.cls
        /\ unit = first.unit)
       => amount = first.amount

\* -3/2 knots was converted to feet per minute and back
C13_Witness ==
    /\ ures.op = "convert_to"
    /\ hops = 2
    /\ first = [amount |-> QFloat(-1, Q("3" :> 1 @@ "2" :> -1)), unit |-> Unit("SpeedUnits", "KN")]
    /\ ures.self = Unit("SpeedUnits", "FPM")
    /\ unit = first.unit
    /\ amount = first.amount

\* C14: modifier and convert_to between two units of different unit families
\* always raise an error; they never return a factor or a converted amount.
C14_CrossFamilyRaises ==
    (ures.op \in {"modifier", "convert_to"} /\ ures.self.cls # ures.units.cls)
        => IsError(ures.out)

-----------------------------------------------------------------------------
(* alpyne/outputs.py: UnitValue arithmetic *)

\* type(unit): the unit class that has a member of this name
TypeOfUnit(n) ==
    CHOOSE c \in Range(UnitClasses) : n \in Range(MembersOf(c))

\* a / b for finite numbers
Div(a, b) ==
    IF Numer(b) = 0 THEN Raised("ZeroDivisionError")
    ELSE IF Numer(b) < 0 THEN Rat(-(Numer(a) * Denom(b)), Denom(a) * (-Numer(b)))
    ELSE Rat(Numer(a) * Denom(b), Denom(a) * Numer(b))

\* the lambdas of __add__, __sub__, __mul__ and __truediv__
Apply(operation, a, b) ==
    CASE operation = "+" -> Add(a, b)
      [] operation = "-" -> Sub(a, b)
      [] operation = "*" -> Mul(a, b)
      [] operation = "/" -> Div(a, b)

\* UnitValue._check_type_and_convert: the other operand as a number in
\* self's unit
_check_type_and_convert(self, other) ==
    IF other.t \in {"int", "float"} THEN other
    ELSE IF other.t # "UnitValue" THEN Raised("NotImplementedError")
    ELSE IF TypeOfUnit(UnitOf(self)) # TypeOfUnit(UnitOf(other)) THEN Raised("NotImplementedError")
    ELSE convert_to(UnitOf(other), ValueOf(other), UnitOf(self))

\* UnitValue._apply_operation
_apply_operation(self, other, operation) ==
    LET other_value == _check_type_and_convert(self, other) IN
    IF IsError(other_value) THEN other_value
    ELSE LET new_value == Apply(operation, ValueOf(self), other_value) IN
         IF IsError(new_value) THEN new_value
         ELSE UnitValueOf(new_value, UnitOf(self))

\* UnitValue.__iadd__, __isub__, __imul__, __itruediv__: what the call does
\* to self and what it returns (the methods have no return statement)
UnitValue__iop__(self, other, operation) ==
    LET new_uv == _apply_operation(self, other, operation) IN
    IF IsError(new_uv) THEN [self |-> self, ret |-> new_uv]
    ELSE [self |-> UnitValueOf(ValueOf(new_uv), UnitOf(self)), ret |-> NoneV]

-----------------------------------------------------------------------------
(* SpecUnitValue: a variable x bound to a UnitValue; the caller executes
   z = x + y, x += y and the like *)

Operations == {"+", "-", "*", "/"}

\* the UnitValue x starts with, and the right operands
FirstOperands == {UnitValueOf(Rat(n, 1), u) : n \in {0, 3}, u \in {"SECOND", "MINUTE"}}
Operands ==
    {Rat(2, 1), Rat(0, 1), StrV("b"),
     UnitValueOf(Rat(30, 1), "SECOND"), UnitValueOf(Rat(1, 1), "MINUTE"),
     UnitValueOf(Rat(1, 1), "METER")}

Statement(op, inplace, y, before, out) ==
    [op |-> op, inplace |-> inplace, y |-> y, before |-> before, out |-> out]

InitUnitValue ==
    /\ IdleRun
    /\ IdleSchema
    /\ IdleCodec
    /\ IdleCfg
    /\ IdleSpace
    /\ IdleSettings
    /\ IdleSim
    /\ IdleUnits
    /\ var_x \in FirstOperands
    /\ obj_x = var_x
    /\ uvres = NoStatement

\* z = x + y (x - y, x * y, x / y): type(x).__add__(x, y); None has no such
\* method
BinaryOperation ==
    /\ \E op \in Operations, y \in Operands :
          uvres' = Statement(op, FALSE, y, var_x,
                             IF var_x = NoneV THEN Raised("TypeError")
                             ELSE _apply_operation(var_x, y, op))
    /\ UNCHANGED <<var_x, obj_x>>
    /\ UNCHANGED exceptUnitValue

\* x += y (x -= y, x *= y, x /= y): x = type(x).__iadd__(x, y); the result
\* recorded is what x holds afterwards, or what was raised
InPlaceOperation ==
    /\ \E op \in Operations, y \in Operands :
          IF var_x = NoneV
          THEN /\ uvres' = Statement(op, TRUE, y, var_x, Raised("TypeError"))
               /\ UNCHANGED <<var_x, obj_x>>
          ELSE LET r == UnitValue__iop__(var_x, y, op) IN
               IF IsError(r.ret)
               THEN /\ uvres' = Statement(op, TRUE, y, var_x, r.ret)
                    /\ UNCHANGED <<var_x, obj_x>>
               ELSE /\ obj_x' = r.self
                    /\ var_x' = r.ret
                    /\ uvres' = Statement(op, TRUE, y, var_x, r.ret)
    /\ UNCHANGED exceptUnitValue

NextUnitValue ==
    \/ BinaryOperation
    \/ InPlaceOperation

SpecUnitValue == InitUnitValue /\ [][NextUnitValue]_vars

-----------------------------------------------------------------------------
(* Claims about UnitValue, checked under SpecUnitValue *)

\* the right operand is a number or a UnitValue of the family of the left one
SameFamily(a, b) ==
    \/ b.t \in {"int", "float"}
    \/ b.t = "UnitValue" /\ TypeOfUnit(UnitOf(a)) = TypeOfUnit(UnitOf(b))

\* C15: after an in-place operation (+=, -=, *=, /=) on a variable holding a
\* UnitValue x with a number or same-family UnitValue y, the variable still
\* holds a UnitValue with x's unit whose value is the result of the operation
\* on x.value and y expressed in x's unit; the plain operators leave x
\* unchanged and return a new UnitValue.
C15_InPlaceKeepsUnitValue ==
    (/\ uvres.op \in Operations
     /\ uvres.before.t = "UnitValue"
     /\ SameFamily(uvres.before, uvres.y)
     /\ uvres.out.t # "ZeroDivisionError")
    => IF uvres.inplace
       THEN var_x = _apply_operation(uvres.before, uvres.y, uvres.op)
       ELSE /\ var_x = uvres.before
            /\ uvres.out = _apply_operation(uvres.before, uvres.y, uvres.op)
            /\ uvres.out.t = "UnitValue"

-----------------------------------------------------------------------------
(* alpyne/utils.py: AlpyneJSONDecoder and AlpyneJSONEncoder *)

\* a dict with the given (key, value) entries, in order
DictOf(entries) == [t |-> "dict", v |-> 0, w |-> entries]

\* a FieldData instance as a Python value
FieldV(f) == [t |-> "FieldData", v |-> 0, w |-> <<f>>]

\* an EngineSettings instance as a Python value
EngineSettingsV(s) == [t |-> "EngineSettings", v |-> 0, w |-> <<s>>]

\* a _SimRLSpace instance as a Python value: its class and its data
SpaceClasses == {"SimConfiguration", "SimObservation", "SimAction"}
SpaceV(c, data) == [t |-> c, v |-> 0, w |-> data]

\* a Python type object, as py_type returns it
TypeV(n) == [t |-> "type", v |-> 0, w |-> <<n>>]

\* FieldData(**obj): the dataclass accepts name, type, value and units only;
\* units defaults to None
FieldData__init__(obj) ==
    IF \E i \in DOMAIN obj.w : obj.w[i].k \notin {"name", "type", "value", "units"}
    THEN Raised("TypeError")
    ELSE FieldV(FieldData(Get(obj.w, "name").w[1], Get(obj.w, "type").w[1],
                          Get(obj.w, "value"),
                          IF HasKey(obj.w, "units") /\ Get(obj.w, "units") # NoneV
                          THEN Get(obj.w, "units").w[1] ELSE NoUnits))

\* AlpyneJSONDecoder.decode, on the object that json's own decoder returns
AlpyneJSONDecoder_decode(obj) ==
    IF obj.t = "dict" /\ \A key \in {"name", "type", "value"} : HasKey(obj.w, key)
    THEN FieldData__init__(obj)
    ELSE obj

\* datetime.isoformat()
isoformat(d) ==
    CASE d = Date(Rat(0, 1)) -> StrV("2024-01-02T00:00:00")
      [] d = Date(Rat(245, 1)) -> StrV("2024-01-02T00:04:05")
      [] d = Date(Rat(491, 2)) -> StrV("2024-01-02T00:04:05.500000")

\* dataclasses.asdict(o): the fields of a FieldData; the analysis objects of
\* the model carry no fields
asdict(o) ==
    IF o.t = "FieldData"
    THEN DictOf(<< [k |-> "name", v |-> StrV(o.w[1].name)],
                   [k |-> "type", v |-> StrV(o.w[1].type)],
                   [k |-> "value", v |-> o.w[1].value],
                   [k |-> "units", v |-> IF o.w[1].units = NoUnits THEN NoneV
                                         ELSE StrV(o.w[1].units)] >>)
    ELSE DictOf(<<>>)

\* callable(o): functions, and UnitValue, which defines __call__
callable(o) == o.t \in {"function", "UnitValue"}

\* o(): the user's function returns a number; UnitValue.__call__ without its
\* one argument raises TypeError
CallNoArgs(o) == IF o.t = "function" THEN IntV(1) ELSE Raised("TypeError")

\* AlpyneJSONEncoder.default
default(o) ==
    IF callable(o) THEN CallNoArgs(o)
    ELSE IF o.t \in SpaceClasses THEN DictOf(o.w)
    ELSE IF o.t = "EngineSettings" THEN AlpyneJSONEncoder_default(o.w[1])
    ELSE IF o.t = "TimeUnits" THEN StrV(o.w[1])
    ELSE IF o.t \in {"FieldData"} \cup AnalysisTypes THEN asdict(o)
    ELSE IF o.t = "datetime" THEN isoformat(o)
    ELSE Raised("TypeError")

\* json.dumps(o, cls=AlpyneJSONEncoder): the JSON value written, or what is
\* raised; default is called for every object json cannot serialize itself
RECURSIVE dumps(_)
dumps(o) ==
    IF o.t \in {"none", "bool", "int", "float", "str"} THEN o
    ELSE IF o.t = "dict"
    THEN LET enc == [i \in DOMAIN o.w |-> [k |-> o.w[i].k, v |-> dumps(o.w[i].v)]]
             bad == {i \in DOMAIN enc : IsError(enc[i].v)}
         IN IF bad = {} THEN DictOf(enc)
            ELSE enc[CHOOSE i \in bad : \A j \in bad : i <= j].v
    ELSE IF o.t = "list"
    THEN LET enc == [i \in DOMAIN o.w |-> dumps(o.w[i])]
             bad == {i \in DOMAIN enc : IsError(enc[i])}
         IN IF bad = {} THEN ListOf(enc)
            ELSE enc[CHOOSE i \in bad : \A j \in bad : i <= j]
    ELSE LET d == default(o) IN
         IF IsError(d) THEN d ELSE dumps(d)

-----------------------------------------------------------------------------
(* SpecCodec: one input, a field descriptor, a decoded JSON document or an
   object to encode, and the conversions applied to it *)

\* field descriptors: recognized wire types, an array type and a type that
\* TYPE_LOOKUP does not know
WireTypes == {"int", "double", "String", "boolean", "Date", "TimeUnits", "Map",
              "DataSet", "int[]", "Foo"}
RawValues == {NoneV, IntV(1), BoolV(TRUE), Rat(3, 2), StrV("b"), StrV("Infinity"),
              StrV("2024-01-02"), StrV("SECOND"), ListOf(<<>>), DictOf(<<>>)}
Fields == {FieldData("f", ty, val, un) :
              ty \in WireTypes, val \in RawValues, un \in {NoUnits, "SECOND"}}

\* JSON documents as json's decoder returns them: objects over the keys of a
\* field descriptor and one more key, an array and scalars
DocKeys == <<"name", "type", "value", "units", "extra">>
DocValue(k) ==
    CASE k = "name" -> StrV("rate")
      [] k = "type" -> StrV("double")
      [] k = "value" -> IntV(1)
      [] k = "units" -> StrV("SECOND")
      [] k = "extra" -> IntV(0)
DocObject(keys) ==
    DictOf([i \in 1..Cardinality({j \in DOMAIN DocKeys : DocKeys[j] \in keys}) |->
              LET k == DocKeys[CHOOSE j \in DOMAIN DocKeys :
                          /\ DocKeys[j] \in keys
                          /\ Cardinality({l \in 1..j : DocKeys[l] \in keys}) = i]
              IN [k |-> k, v |-> DocValue(k)]])
Documents ==
    {DocObject(keys) : keys \in SUBSET Range(DocKeys)}
    \cup {ListOf(<<IntV(1)>>), IntV(1), StrV("b"), NoneV}

\* objects handed to json.dumps: spaces built from the schema's defaults, one
\* with a UnitValue assigned by the caller, engine settings, and plain values
ActionDefaults == _SimRLSpace__init__("action", <<>>).data
ConfigurationDefaults == _SimRLSpace__init__("configuration", <<>>).data
SettingsDefaults == EngineSettings__init__(<<>>).obj
\* SimConfiguration(limit=1) and SimConfiguration(limit=1, rate=1): the
\* caller names the second field of the schema first
ConfigurationLimitOnly ==
    _SimRLSpace__init__("configuration", << [k |-> "limit", v |-> IntV(1)] >>).data
ConfigurationLimitFirst ==
    _SimRLSpace__init__("configuration", << [k |-> "limit", v |-> IntV(1)],
                                            [k |-> "rate", v |-> IntV(1)] >>).data
Encodables ==
    {UnitValue(5, "SECOND"),
     SpaceV("SimConfiguration", ConfigurationLimitOnly),
     SpaceV("SimConfiguration", ConfigurationLimitFirst),
     SpaceV("SimConfiguration", Put(ConfigurationLimitFirst, "limit", IntV(1))),
     SpaceV("SimAction", ActionDefaults),
     SpaceV("SimConfiguration", ConfigurationDefaults),
     SpaceV("SimConfiguration", Put(ConfigurationDefaults, "rate", UnitValue(2, "MINUTE"))),
     EngineSettingsV(SettingsDefaults),
     EngineSettingsV(setattr(SettingsDefaults, "start_time", UnitValue(1, "MINUTE"))),
     Fn, Date(Rat(245, 1)), UnitMember("HOUR"), IntV(1), StrV("b"),
     FieldV(FieldData("f", "double", IntV(1), NoUnits)),
     DictOf(<< [k |-> "a", v |-> ListOf(<<IntV(1), UnitMember("DAY")>>)] >>)}

\* a decoded status record for the environment: its state and its stop flag
EnvStatus(stop, state) ==
    [t |-> "SimStatus", v |-> 0, w |-> <<state, IF stop THEN "True" ELSE "False">>]
Statuses == {EnvStatus(stop, EngineState[i]) : stop \in BOOLEAN, i \in DOMAIN EngineState}

\* Flag.__contains__: other in flag, every member of other is a member of flag
Flag__contains__(flag, other) == other \subseteq flag

\* AlpyneEnv._is_terminal:
\* status.stop or EngineState.FINISHED | EngineState.ERROR in status.state
_is_terminal(st) ==
    BoolV(st.w[2] = "True" \/ Flag__contains__({st.w[1]}, {"FINISHED"} \cup {"ERROR"}))

Input(role, val) == [role |-> role, val |-> val]

InitCodec ==
    /\ IdleRun
    /\ IdleSchema
    /\ IdleCfg
    /\ IdleSpace
    /\ IdleSettings
    /\ IdleSim
    /\ IdleUnits
    /\ IdleUnitValue
    /\ cin \in {Input("field", FieldV(f)) : f \in Fields}
               \cup {Input("document", d) : d \in Documents}
               \cup {Input("object", o) : o \in Encodables}
               \cup {Input("status", st) : st \in Statuses}
    /\ cres = [op |-> "none", out |-> NoneV]

\* field.py_type
PyType ==
    /\ cin.role = "field"
    /\ cres' = [op |-> "py_type", out |-> TypeV(py_type(cin.val.w[1]))]
    /\ UNCHANGED cin
    /\ UNCHANGED exceptCodec

\* field.py_value
PyValue ==
    /\ cin.role = "field"
    /\ cres' = [op |-> "py_value", out |-> py_value(cin.val.w[1])]
    /\ UNCHANGED cin
    /\ UNCHANGED exceptCodec

\* json.loads(text, cls=AlpyneJSONDecoder)
Decode ==
    /\ cin.role = "document"
    /\ cres' = [op |-> "decode", out |-> AlpyneJSONDecoder_decode(cin.val)]
    /\ UNCHANGED cin
    /\ UNCHANGED exceptCodec

\* json.dumps(o, cls=AlpyneJSONEncoder)
Encode ==
    /\ cin.role = "object"
    /\ cres' = [op |-> "encode", out |-> dumps(cin.val)]
    /\ UNCHANGED cin
    /\ UNCHANGED exceptCodec

\* AlpyneEnv.step: the terminal flag of the status that the action led to
IsTerminal ==
    /\ cin.role = "status"
    /\ cres' = [op |-> "_is_terminal", out |-> _is_terminal(cin.val)]
    /\ UNCHANGED cin
    /\ UNCHANGED exceptCodec

NextCodec ==
    \/ IsTerminal
    \/ PyType
    \/ PyValue
    \/ Decode
    \/ Encode

SpecCodec == InitCodec /\ [][NextCodec]_vars

-----------------------------------------------------------------------------
(* Claims about the conversions, checked under SpecCodec *)

\* the wire types that are neither recognized nor array types
Unrecognized(ty) == ty \notin DOMAIN TYPE_LOOKUP /\ ty \notin ArrayTypes

\* C16: for every field descriptor whose wire type is not one of the
\* recognized types (and is not an array type), deriving its host type and
\* resolving its host value fail with an error, whatever the raw value is.
C16_UnknownTypeIsError ==
    (/\ cin.role = "field"
     /\ Unrecognized(cin.val.w[1].type)
     /\ cres.op \in {"py_type", "py_value"})
    => IsError(cres.out)

\* a raw value to which no special conversion applies: not null, not for a
\* date or time-unit field, not unit-carrying, not a mapping for an
\* analysis-object field, not an infinity string
NoSpecialConversion(f) ==
    /\ f.value # NoneV
    /\ ~Unrecognized(f.type)
    /\ py_type(f) \notin {"datetime", "TimeUnits"}
    /\ f.units = NoUnits
    /\ ~(f.value.t = "dict" /\ py_type(f) # "dict")
    /\ f.value \notin {StrV("Infinity"), StrV("-Infinity")}

\* the raw value has the declared host type, or is an integer for a double
TypeMatches(value, pt) == value.t = pt \/ (pt = "float" /\ value.t = "int")

\* C17: resolving the host value of a field with a non-null raw value to which
\* no special conversion applies fails with an error whenever the raw value's
\* type does not match the declared host type, an integer for a double field
\* excepted; a boolean, list or fractional number for an integer field is
\* rejected.
C17_MismatchIsError ==
    (/\ cin.role = "field"
     /\ cres.op = "py_value"
     /\ NoSpecialConversion(cin.val.w[1])
     /\ ~TypeMatches(cin.val.w[1].value, py_type(cin.val.w[1])))
    => IsError(cres.out)

\* the keys of a decoded JSON object
KeySet(o) == {o.w[i].k : i \in DOMAIN o.w}

\* C18: decoding a JSON document yields a field descriptor if and only if the
\* document is an object whose key set is exactly {name, type, value} or
\* {name, type, value, units}; every other document, an object with those
\* keys and more included, decodes without error to the plain mapping, array
\* or scalar.
C18_DecodeFieldDataIffExactKeys ==
    cres.op = "decode" =>
        IF cin.val.t = "dict" /\ KeySet(cin.val) \in {{"name", "type", "value"},
                                                      {"name", "type", "value", "units"}}
        THEN cres.out.t = "FieldData"
        ELSE cres.out = cin.val

\* a UnitValue occurs in the object: the object itself, a value of a space or
\* an attribute of the engine settings
HasUnitValue(o) ==
    \/ o.t = "UnitValue"
    \/ o.t \in SpaceClasses /\ \E i \in DOMAIN o.w : o.w[i].v.t = "UnitValue"
    \/ o.t = "EngineSettings" /\ o.w[1].start_time.t = "UnitValue"

\* C20: encoding never fails on a unit-carrying value: a UnitValue, encoded on
\* its own or as the value of a Configuration, Action or EngineSettings field,
\* is converted to a JSON-compatible value by the encoder's dispatch.
C20_UnitValueEncodes ==
    (cin.role = "object" /\ cres.op = "encode" /\ HasUnitValue(cin.val))
        => ~IsError(cres.out)

\* the subschema of a space class
SUBSCHEMA_KEY(c) ==
    CASE c = "SimConfiguration" -> "configuration"
      [] c = "SimObservation" -> "observation"
      [] c = "SimAction" -> "action"

\* the keys of a mapping, in the order they are written
KeysInOrder(o) == [i \in DOMAIN o.w |-> o.w[i].k]

\* C19: the encoded form of a typed space (Configuration or Action) is a plain
\* name-to-value mapping whose keys appear in schema-declared order, whatever
\* the order in which the caller supplied or later assigned the fields.
C19_EncodedKeysInSchemaOrder ==
    (/\ cin.role = "object"
     /\ cin.val.t \in {"SimConfiguration", "SimAction"}
     /\ cres.op = "encode"
     /\ ~IsError(cres.out))
    => /\ cres.out.t = "dict"
       /\ KeysInOrder(cres.out) = SchemaKeys(SUBSCHEMA_KEY(cin.val.t))

\* C23: AlpyneEnv._is_terminal(status) returns true if and only if status.stop
\* is true or status.state is FINISHED or status.state is ERROR; in particular
\* it is true for a status whose state is FINISHED (or ERROR) alone with stop
\* false.
C23_TerminalIffStopOrFinishedOrError ==
    cres.op = "_is_terminal" =>
        (cres.out = BoolV(TRUE)
            <=> (cin.val.w[2] = "True" \/ cin.val.w[1] \in {"FINISHED", "ERROR"}))

-----------------------------------------------------------------------------
(* alpyne/client/model_run.py: ModelRun; alpyne/client/abstract.py:
   BaseMultiRun *)

\* RunStatus, as model_run.py and abstract.py use it: the non-processing
\* statuses, FAILED, and RUNNING for every status that is none of them
RunStatus == {"RUNNING", "PAUSED", "COMPLETED", "STOPPED", "FAILED"}

\* the run object that a ModelRun method returns (return self)
SelfV(s) == [t |-> "ModelRun", v |-> s, w |-> <<>>]

\* (mutant for C27) a wait that returns on the first status that is not FAILED
WaitReturnsOnAnyStatus(st) == IF st = "FAILED" THEN "raise" ELSE "return"

\* ModelRun.wait_for_completion, one round of its loop on the status polled:
\* return self, raise ModelError(info), or sleep and poll again
wait_for_completion(st) ==
    IF st \in {"PAUSED", "COMPLETED", "STOPPED"} THEN "return"
    ELSE IF st = "FAILED" THEN "raise"
    ELSE "sleep"

\* the call in progress returns val or raises it; polled is the status that
\* wait_for_completion polled last, "None" when the call ends without a poll
Return(val, polled) ==
    /\ mout' = [op |-> mpc.op, sim |-> mpc.sim, val |-> val, id |-> run_id[mpc.sim],
                waited |-> mpc.waited, polled |-> polled]
    /\ mpc' = NoRunCall

\* a method posts its request: run (POST /runs), reset, take_action (POST
\* /runs/{id}/rl) or stop (POST /runs/{id}/stop)
Begin(op, s) ==
    /\ mpc' = [op |-> op, sim |-> s, at |-> "post", waited |-> FALSE]
    /\ mout' = NoRunOut

\* ModelRun.run: a second call raises RuntimeError
ModelRun_run(s) ==
    IF run_id[s] # 0
    THEN /\ mout' = [op |-> "run", sim |-> s, val |-> Raised("RuntimeError"),
                     id |-> run_id[s], waited |-> FALSE, polled |-> "None"]
         /\ mpc' = NoRunCall
    ELSE Begin("run", s)

\* ModelRun.reset: the configuration is posted to /runs/{self.id}/rl
ModelRun_reset(s) == Begin("reset", s)

\* ModelRun.take_action
ModelRun_take_action(s) == Begin("take_action", s)

\* ModelRun.stop
ModelRun_stop(s) == Begin("stop", s)

-----------------------------------------------------------------------------
(* The server of the runs, as the client's documentation describes it *)

\* the id the server gives to a new run
NextRunId == Cardinality({s \in Sims : run_id[s] # 0}) + 1

\* a request for a run that does not exist (/runs/None/...), or an action
\* while the run is not PAUSED, is answered with an error status
Refused(op, s) ==
    \/ op # "run" /\ run_id[s] = 0
    \/ op = "take_action" /\ runs[s].status # "PAUSED"

\* the run after the server has answered the POST: a new run executes; an
\* action lets a paused run go on; a stop halts it; a reset starts the next
\* episode at once or is applied later, the run keeping its status until then
Answered(op, r) ==
    CASE op = "run" -> {[status |-> "RUNNING", pending |-> FALSE]}
      [] op = "take_action" -> {[status |-> "RUNNING", pending |-> FALSE]}
      [] op = "stop" -> {[r EXCEPT !.status = IF @ \in {"RUNNING", "PAUSED"} THEN "STOPPED" ELSE @]}
      [] op = "reset" -> {[status |-> "RUNNING", pending |-> FALSE],
                          [r EXCEPT !.pending = TRUE]}

\* the statuses in which an episode has ended, and has ended properly
Ended == {"COMPLETED", "STOPPED", "FAILED"}
Finished == {"COMPLETED", "STOPPED"}

-----------------------------------------------------------------------------
(* SpecRun: the caller drives one ModelRun; SpecMultiRun: BaseMultiRun.run
   drives n_workers of them.  The server executes each run on its own. *)

MaxEpisodes == 2     \* episodes a run ends at the server; n_episodes of a multi-run

\* the run object the caller holds: the first of Sims
OneSim == CHOOSE s \in Sims : \A t \in Sims : s <= t

InitRun ==
    /\ IdleCfg
    /\ IdleSpace
    /\ IdleSettings
    /\ IdleSim
    /\ IdleUnits
    /\ IdleUnitValue
    /\ IdleCodec
    /\ IdleSchema
    /\ blocking \in BOOLEAN
    /\ FreshRuns
    /\ loop = NoLoop

\* exp.run()
Run ==
    /\ loop.at = "off"
    /\ mpc = NoRunCall
    /\ ModelRun_run(OneSim)
    /\ UNCHANGED <<blocking, run_id, last_state, runs, loop, tally>>
    /\ UNCHANGED exceptRun

\* exp.reset()
Reset ==
    /\ loop.at = "off"
    /\ mpc = NoRunCall
    /\ ModelRun_reset(OneSim)
    /\ UNCHANGED <<blocking, run_id, last_state, runs, loop, tally>>
    /\ UNCHANGED exceptRun

\* exp.take_action(action)
TakeAction ==
    /\ loop.at = "off"
    /\ mpc = NoRunCall
    /\ ModelRun_take_action(OneSim)
    /\ UNCHANGED <<blocking, run_id, last_state, runs, loop, tally>>
    /\ UNCHANGED exceptRun

\* exp.stop()
Stop ==
    /\ loop.at = "off"
    /\ mpc = NoRunCall
    /\ ModelRun_stop(OneSim)
    /\ UNCHANGED <<blocking, run_id, last_state, runs, loop, tally>>
    /\ UNCHANGED exceptRun

\* exp.wait_for_completion(): the first get_state is the first poll
WaitForCompletion ==
    /\ loop.at = "off"
    /\ mpc = NoRunCall
    /\ mpc' = [op |-> "wait_for_completion", sim |-> OneSim, at |-> "wait", waited |-> FALSE]
    /\ mout' = NoRunOut
    /\ UNCHANGED <<blocking, run_id, last_state, runs, loop, tally>>
    /\ UNCHANGED exceptRun

\* exp.get_state(): GET /runs/{id}/progress; the status is kept as last_state
GetState ==
    /\ loop.at = "off"
    /\ mpc = NoRunCall
    /\ IF run_id[OneSim] = 0
       THEN /\ mout' = [op |-> "get_state", sim |-> OneSim, val |-> ModelError(404),
                        id |-> 0, waited |-> FALSE, polled |-> "None"]
            /\ UNCHANGED last_state
       ELSE /\ mout' = [op |-> "get_state", sim |-> OneSim,
                        val |-> StrV(runs[OneSim].status),
                        id |-> run_id[OneSim], waited |-> FALSE, polled |-> "None"]
            /\ last_state' = [last_state EXCEPT ![OneSim] = runs[OneSim].status]
    /\ UNCHANGED <<blocking, run_id, runs, mpc, loop, tally>>
    /\ UNCHANGED exceptRun

\* the server answers the POST of the call in progress; the method then
\* returns self, or waits for completion when blocking
PostAnswered ==
    /\ mpc.at = "post"
    /\ LET s == mpc.sim IN
       IF Refused(mpc.op, s)
       THEN /\ Return(ModelError(IF run_id[s] = 0 THEN 404 ELSE 400), "None")
            /\ UNCHANGED <<run_id, runs>>
       ELSE /\ \E r \in Answered(mpc.op, runs[s]) : runs' = [runs EXCEPT ![s] = r]
            /\ run_id' = IF mpc.op = "run" THEN [run_id EXCEPT ![s] = NextRunId] ELSE run_id
            /\ IF blocking
               THEN /\ mpc' = [mpc EXCEPT !.at = "wait"]
                    /\ UNCHANGED mout
               ELSE /\ mout' = [op |-> mpc.op, sim |-> s, val |-> SelfV(s),
                                id |-> run_id'[s], waited |-> FALSE, polled |-> "None"]
                    /\ mpc' = NoRunCall
    /\ UNCHANGED <<blocking, last_state, loop, tally>>
    /\ UNCHANGED exceptRun

\* wait_for_completion: get_state is answered; the call returns, raises or
\* sleeps for the polling period
Poll ==
    /\ mpc.at = "wait"
    /\ LET s == mpc.sim
           st == runs[s].status
       IN IF run_id[s] = 0
          THEN /\ Return(ModelError(404), "None")
               /\ UNCHANGED last_state
          ELSE /\ last_state' = [last_state EXCEPT ![s] = st]
               /\ CASE wait_for_completion(st) = "return" -> Return(SelfV(s), st)
                    [] wait_for_completion(st) = "raise" -> Return(ModelError(0), st)
                    [] wait_for_completion(st) = "sleep" ->
                          /\ mpc' = [mpc EXCEPT !.waited = TRUE]
                          /\ UNCHANGED mout
    /\ UNCHANGED <<blocking, run_id, runs, loop, tally>>
    /\ UNCHANGED exceptRun

\* the server executes a run: a reset is applied, or the episode reaches an
\* action request, its end or an error
RunExecutes ==
    /\ \E s \in Sims :
          \/ /\ runs[s].pending
             /\ runs' = [runs EXCEPT ![s] = [status |-> "RUNNING", pending |-> FALSE]]
             /\ UNCHANGED tally
          \/ /\ runs[s].status = "RUNNING"
             /\ ~runs[s].pending
             /\ \E st \in {"PAUSED"} \cup (IF tally[s].ended < MaxEpisodes THEN Ended ELSE {}) :
                   /\ runs' = [runs EXCEPT ![s].status = st]
                   /\ tally' = [tally EXCEPT
                        ![s].ended = @ + (IF st \in Ended THEN 1 ELSE 0),
                        ![s].finished = @ + (IF st \in Finished THEN 1 ELSE 0)]
    /\ UNCHANGED <<blocking, run_id, last_state, mpc, mout, loop>>
    /\ UNCHANGED exceptRun

NextRun ==
    \/ Run
    \/ Reset
    \/ TakeAction
    \/ Stop
    \/ WaitForCompletion
    \/ GetState
    \/ PostAnswered
    \/ Poll
    \/ RunExecutes

SpecRun == InitRun /\ [][NextRun]_vars

-----------------------------------------------------------------------------
(* Claims about ModelRun, checked under SpecRun *)

\* polling is fair: a call that waits for completion polls again and again
SpecRunFair == SpecRun /\ WF_vars(Poll)

\* a call is inside wait_for_completion
Waiting == mpc.at = "wait"

\* the statuses on which wait_for_completion returns
NonProcessing == {"PAUSED", "COMPLETED", "STOPPED"}

\* C27: under fair polling, if the run's status eventually becomes and stays
\* PAUSED, COMPLETED or STOPPED, a call waiting for completion eventually
\* returns; a call whose last poll reported FAILED raised ModelError; a call
\* returned from the wait only when the status it polled last was PAUSED,
\* COMPLETED or STOPPED, never a processing status.
C27_WaitReturnsOnlyWhenNotProcessing ==
    /\ [](mout.polled # "None" =>
            /\ mout.val = SelfV(mout.sim) <=> mout.polled \in NonProcessing
            /\ mout.polled = "FAILED" => mout.val = ModelError(0)
            /\ mout.polled = last_state[mout.sim]
            /\ mout.polled # "RUNNING")
    /\ (<>[](runs[OneSim].status \in NonProcessing)) => (Waiting ~> ~Waiting)

\* a blocking call slept while the run was executing and returned the run
\* object once a poll reported PAUSED
C27_Witness ==
    /\ mout.val = SelfV(OneSim)
    /\ mout.waited
    /\ mout.polled = "PAUSED"

\* C21: calling reset() on a ModelRun on which run() has not yet been called
\* (its id is still unset) raises RuntimeError.
C21_ResetBeforeRunRaisesRuntimeError ==
    (mout.op = "reset" /\ mout.id = 0) => mout.val = Raised("RuntimeError")

-----------------------------------------------------------------------------
(* SpecMultiRun: BaseMultiRun.run(n_episodes) on a multi-run without sims *)

InitMultiRun ==
    /\ IdleCfg
    /\ IdleSpace
    /\ IdleSettings
    /\ IdleSim
    /\ IdleUnits
    /\ IdleUnitValue
    /\ IdleCodec
    /\ IdleSchema
    /\ blocking \in BOOLEAN
    /\ FreshRuns
    /\ \E n_episodes \in 1..MaxEpisodes :
          loop = [at |-> "run", i |-> 1, n |-> 0, n_episodes |-> n_episodes, state |-> "None"]

\* the for loop goes on with the next sim, or the while loop tests n again
NextInLoop(l) ==
    IF l.i < n_workers
    THEN [l EXCEPT !.at = "get_state", !.i = @ + 1]
    ELSE [l EXCEPT !.at = "while"]

\* _ = [sim.run() for sim in self.sims], for the i-th sim
CreateAndRun ==
    /\ loop.at = "run"
    /\ mpc = NoRunCall
    /\ ModelRun_run(loop.i)
    /\ loop' = [loop EXCEPT !.at = "called", !.state = "None"]
    /\ UNCHANGED <<blocking, run_id, last_state, runs, tally>>
    /\ UNCHANGED exceptRun

\* while n < n_episodes: the for loop starts over with the first sim, or
\* run() returns
WhileEpisodesLeft ==
    /\ loop.at = "while"
    /\ loop' = IF loop.n < loop.n_episodes
               THEN [loop EXCEPT !.at = "get_state", !.i = 1]
               ELSE [loop EXCEPT !.at = "done"]
    /\ UNCHANGED <<blocking, run_id, last_state, runs, mpc, mout, tally>>
    /\ UNCHANGED exceptRun

\* state == PAUSED: on_episode_step, get_observation, get_action and
\* sim.take_action(act)
EpisodeStep ==
    /\ loop.at = "get_state"
    /\ runs[loop.i].status = "PAUSED"
    /\ last_state' = [last_state EXCEPT ![loop.i] = "PAUSED"]
    /\ ModelRun_take_action(loop.i)
    /\ loop' = [loop EXCEPT !.at = "called", !.state = "PAUSED"]
    /\ UNCHANGED <<blocking, run_id, runs, tally>>
    /\ UNCHANGED exceptRun

\* state in [COMPLETED, STOPPED, FAILED]: on_episode_finish(sim) and
\* sim.reset()
EpisodeFinish ==
    /\ loop.at = "get_state"
    /\ runs[loop.i].status \in Ended
    /\ tally[loop.i].resets <= MaxEpisodes
    /\ last_state' = [last_state EXCEPT ![loop.i] = runs[loop.i].status]
    /\ tally' = [tally EXCEPT ![loop.i].finish_calls = @ + 1, ![loop.i].resets = @ + 1]
    /\ ModelRun_reset(loop.i)
    /\ loop' = [loop EXCEPT !.at = "called", !.state = runs[loop.i].status]
    /\ UNCHANGED <<blocking, run_id, runs>>
    /\ UNCHANGED exceptRun

\* else: RUNNING; check on it next loop
StillRunning ==
    /\ loop.at = "get_state"
    /\ runs[loop.i].status \notin {"PAUSED"} \cup Ended
    /\ last_state' = [last_state EXCEPT ![loop.i] = runs[loop.i].status]
    /\ loop' = NextInLoop(loop)
    /\ UNCHANGED <<blocking, run_id, runs, mpc, mout, tally>>
    /\ UNCHANGED exceptRun

\* the call of the loop on the i-th sim has ended: what it raised leaves
\* run(); after run() the next sim is started; after reset() of a sim whose
\* state was not FAILED n is incremented
CallReturned ==
    /\ loop.at = "called"
    /\ mpc = NoRunCall
    /\ IF IsError(mout.val)
       THEN /\ loop' = [loop EXCEPT !.at = "raised"]
            /\ UNCHANGED tally
       ELSE IF mout.op = "run"
       THEN /\ loop' = IF loop.i < n_workers
                       THEN [loop EXCEPT !.at = "run", !.i = @ + 1]
                       ELSE [loop EXCEPT !.at = "while"]
            /\ UNCHANGED tally
       ELSE IF mout.op = "reset" /\ loop.state # "FAILED"
       THEN /\ loop' = NextInLoop([loop EXCEPT !.n = @ + 1])
            /\ tally' = [tally EXCEPT ![loop.i].counted = @ + 1]
       ELSE /\ loop' = NextInLoop(loop)
            /\ UNCHANGED tally
    /\ UNCHANGED <<blocking, run_id, last_state, runs, mpc, mout>>
    /\ UNCHANGED exceptRun

NextMultiRun ==
    \/ CreateAndRun
    \/ WhileEpisodesLeft
    \/ EpisodeStep
    \/ EpisodeFinish
    \/ StillRunning
    \/ CallReturned
    \/ PostAnswered
    \/ Poll
    \/ RunExecutes

SpecMultiRun == InitMultiRun /\ [][NextMultiRun]_vars

-----------------------------------------------------------------------------
(* Claims about BaseMultiRun.run, checked under SpecMultiRun *)

\* C30 as claimed: each episode that a sim finishes (COMPLETED or STOPPED)
\* is counted towards n_episodes once, and each episode that ends triggers
\* on_episode_finish and reset once: no sim has more episodes counted than it
\* finished, nor more on_episode_finish calls or resets than episodes ended.
C30_EpisodeCountedAndResetOnce ==
    \A s \in Sims :
        /\ tally[s].counted <= tally[s].finished
        /\ tally[s].finish_calls <= tally[s].ended
        /\ tally[s].resets <= tally[s].ended

-----------------------------------------------------------------------------
(* alpyne/sim.py: the class attribute AnyLogicSim.schema; alpyne/data.py:
   _SimRLSpace._schema.  SpecSchema: one process constructs handles onto
   models, builds dictionaries for a handle and asks a handle for its
   outputs. *)

\* the models a handle can be started on
Models == {"bank", "shop"}

\* the schema definition that a model's server sends for GET /version
Manifest(m) ==
    IF m = "bank"
    THEN [model |-> m,
          configuration |-> << FieldData("rate", "int", IntV(1), NoUnits) >>,
          outputs |-> << FieldData("queue", "int", IntV(0), NoUnits) >>]
    ELSE [model |-> m,
          configuration |-> << FieldData("size", "int", IntV(2), NoUnits),
                               FieldData("rate", "int", IntV(5), NoUnits) >>,
          outputs |-> << FieldData("cost", "int", IntV(0), NoUnits) >>]

\* SimSchema.__post_init__: one name -> FieldData mapping per category
SimSchema__post_init__(_schema_def) ==
    [model |-> _schema_def.model,
     configuration |-> _schema_def.configuration,
     outputs |-> _schema_def.outputs]

\* list(d.keys()) of a category of a schema
NamesOf(fields) == [i \in DOMAIN fields |-> fields[i].name]

\* the loop over config_defaults: schema.configuration[key].value = new_value,
\* up to the first key the schema does not have
RECURSIVE OverwriteDefaults(_, _)
OverwriteDefaults(sch, config_defaults) ==
    IF config_defaults = <<>> THEN [schema |-> sch, err |-> NoneV]
    ELSE LET key == config_defaults[1].k IN
         IF \A i \in DOMAIN sch.configuration : sch.configuration[i].name # key
         THEN [schema |-> sch, err |-> Raised("KeyError")]
         ELSE OverwriteDefaults(
                [sch EXCEPT !.configuration =
                    [i \in DOMAIN @ |-> IF @[i].name = key
                                        THEN [@[i] EXCEPT !.value = config_defaults[1].v]
                                        ELSE @[i]]],
                Tail(config_defaults))

\* AnyLogicSim.__init__, the part on the schema: the value assigned to the
\* class attribute and what the constructor raised
AnyLogicSim__init__(m, config_defaults) ==
    OverwriteDefaults(SimSchema__post_init__(Manifest(m)), config_defaults)

\* SimConfiguration(name=item) against a schema: __setitem__ of the keyword,
\* then the defaults of the fields not given
SimConfiguration__init__(sch, name, item) ==
    LET subschema == sch.configuration
        missing == SelectSeq(subschema, LAMBDA f : f.name # name)
    IN IF name \notin Range(NamesOf(subschema))
       THEN [t |-> "NotAFieldException", v |-> 0, w |-> NamesOf(subschema)]
       ELSE ListOf(<<[k |-> name, v |-> item]>>
                   \o [i \in DOMAIN missing |-> [k |-> missing[i].name,
                                                 v |-> py_value(missing[i])]])

\* AnyLogicSim.outputs() without names: the names it asks the server for
outputs(sch) == [t |-> "names", v |-> 0, w |-> NamesOf(sch.outputs)]

\* the config_defaults a caller passes: none, or one field
ConfigDefaults == {<<>>} \cup {<<[k |-> k, v |-> IntV(7)]>> : k \in {"rate", "size"}}

\* the fields a caller names
ConfigNames == {"rate", "size"}

InitSchema ==
    /\ IdleRun
    /\ IdleCfg
    /\ IdleSpace
    /\ IdleSettings
    /\ IdleSim
    /\ IdleUnits
    /\ IdleUnitValue
    /\ IdleCodec
    /\ IdleSchema

\* sim = AnyLogicSim(model_path, config_defaults=...)
Connect ==
    /\ \E h \in Handles, m \in Models, config_defaults \in ConfigDefaults :
          /\ connected[h] = "none"
          /\ LET r == AnyLogicSim__init__(m, config_defaults) IN
             /\ schema' = r.schema
             /\ sres' = [op |-> "__init__", sim |-> h, name |-> m, item |-> NoneV,
                         out |-> r.err]
             /\ IF IsError(r.err)
                THEN UNCHANGED <<connected, own>>
                ELSE /\ connected' = [connected EXCEPT ![h] = m]
                     /\ own' = [own EXCEPT ![h] = r.schema]
    /\ UNCHANGED exceptSchema

\* SimConfiguration(name=item), built to reset the sim of handle h
NewConfiguration ==
    /\ \E h \in Handles, name \in ConfigNames, item \in {IntV(3), IntV(4)} :
          /\ connected[h] # "none"
          /\ sres' = [op |-> "SimConfiguration", sim |-> h, name |-> name, item |-> item,
                      out |-> SimConfiguration__init__(schema, name, item)]
    /\ UNCHANGED <<schema, connected, own>>
    /\ UNCHANGED exceptSchema

\* sim.outputs() on handle h
Outputs ==
    /\ \E h \in Handles :
          /\ connected[h] # "none"
          /\ sres' = [op |-> "outputs", sim |-> h, name |-> "", item |-> NoneV,
                      out |-> outputs(schema)]
    /\ UNCHANGED <<schema, connected, own>>
    /\ UNCHANGED exceptSchema

NextSchema ==
    \/ Connect
    \/ NewConfiguration
    \/ Outputs

SpecSchema == InitSchema /\ [][NextSchema]_vars

-----------------------------------------------------------------------------
(* Claims about the schema of a handle, checked under SpecSchema *)

\* C26 as claimed: each handle has its own schema: a configuration built for
\* a handle is validated against, and filled from, the schema that handle's
\* constructor built, and outputs() asks for the names of that schema,
\* whichever handle connected last.
C26_HandleKeepsItsOwnSchema ==
    /\ sres.op = "SimConfiguration"
          => sres.out = SimConfiguration__init__(own[sres.sim], sres.name, sres.item)
    /\ sres.op = "outputs" => sres.out = outputs(own[sres.sim])

====
